---- MODULE Spec2Model ----
(***************************************************************************)
(* State-machine model of FractalTrader's live trading core:               *)
(*   - live/state_manager.py       StateManager / TradingState             *)
(*   - live/hl_integration/testnet.py  HyperliquidTestnetTrader            *)
(*   - live/hl_integration/trader.py   HyperliquidTrader (mainnet)         *)
(*                                                                         *)
(* Units.  Prices and balances are whole dollars.  Sizes are integers in   *)
(* units of 0.0001 of the base asset (so 10000 is 1.0 and the 0.0001       *)
(* reconciliation tolerance is 1).  P&L is price difference times size in  *)
(* the product unit.  Python's None for a price is modelled as 0, which    *)
(* the code treats the same way in every test it makes (`if stop_loss:`).  *)
(***************************************************************************)
EXTENDS Integers, Sequences, FiniteSets, TLC

(***************************************************************************)
(* Bounds of the model.                                                    *)
(***************************************************************************)
\* Days the clock can advance (local calendar days 0..MaxDay).
MaxDay == 1
\* Longest trade history; order placement is not offered beyond it.
MaxTrades == 1
\* StateManager(backup_count=...) of the traders: length of the numbered
\* backup chain kept next to the state file.
backup_count == 1
\* backup_count of a StateManager used on its own.
LibraryBackups == 2
\* HyperliquidConfig.max_open_positions as configured for the run.
max_open_positions == 1
\* Processes started on the state file: the first start and the restarts.
MaxStarts == 2
\* Longest trade history of a loop followed from its first open position on.
MaxReentryTrades == 2
\* Longest list of signals strategy.generate_signals returns.
MaxSignals == 2
\* Most trades of the current day a trade history holds in one form
\* (datetime or ISO string).
MaxToday == 26
\* Trades of earlier days a state file is found with.
MaxEarlier == 51
\* Saves a manager makes while its backups are watched.
MaxSaves == 4
\* Largest market price an entry order is priced at, in 10^-4 dollars.
MaxQuote == 5000
\* Calls of the alert system that are followed.
MaxAlerts == 4
\* Largest max_history of an AlertSystem.
MaxHistory == 2
\* Nested calls of the loader the interpreter allows.
RecursionLimit == 4
\* Saves of a run in which the process may die.
MaxCrashSaves == 3
\* Candidates found in one candle series.
MaxSeries == 2
\* Update cycles of a stream that are followed.
MaxCycles == 3
\* Calls of start() on a stream.
MaxStreamStarts == 2

(***************************************************************************)
(* Program constants.                                                      *)
(***************************************************************************)
SimulatedBalance == 10000
DefaultAccountValue == 100000
TestnetMaxDrawdownPct == 20
MainnetMaxDrawdownPct == 10
TestnetMaxDailyTrades == 50
MainnetMaxDailyTrades == 20
min_confidence == 50
SizeUnit == 10000
SizeTolerance == 1
OffsetPerMille == 1
MaxPositionPercentLimit == 1000
BaseRiskPercentLimit == 500
PriceDigits == 7
AlertMinConfidence == 70

Symbols == {"BTC", "ETH"}
default_symbol == "BTC"
Networks == {"testnet", "mainnet"}

(***************************************************************************)
(* Python values that are stored in position and trade dicts.              *)
(***************************************************************************)
\* position_data["signal"]: a live Signal object, the dict left by
\* serialization and a JSON round trip, or None.
NoSignal == [kind |-> "none", direction |-> 0]
SignalObj(d) == [kind |-> "obj", direction |-> d]

\* A timestamp is a datetime object ("dt") or its isoformat() string ("iso").
DateTime(day) == [kind |-> "dt", day |-> day]

\* datetime.isoformat()
IsoFormat(t) == IF t.kind = "dt" THEN [kind |-> "iso", day |-> t.day] ELSE t

\* Signal.to_dict(): the object becomes a plain dict.
SignalToDict(s) == IF s.kind = "obj" THEN [kind |-> "dict", direction |-> s.direction] ELSE s

(***************************************************************************)
(* TradingState and the state file.                                        *)
(***************************************************************************)
EmptyMap == [s \in {} |-> 0]

TradingState(positions, history, balance) ==
    [open_positions |-> positions, trade_history |-> history, starting_balance |-> balance]

EmptyState == TradingState(EmptyMap, <<>>, 0)

\* A file is absent, holds text that is not JSON ("corrupt"), or holds the
\* JSON document of a TradingState.
AbsentFile == [kind |-> "absent", data |-> EmptyState]
CorruptFile == [kind |-> "corrupt", data |-> EmptyState]
StateFile(st) == [kind |-> "state", data |-> st]

\* The state file and its backups .bak1 .. .bak{n}, n the backup_count of
\* the StateManager that owns them.
NewDisk(n) == [main |-> AbsentFile, bak |-> [i \in 1..n |-> AbsentFile]]

\* A free-form value of a position dict ("order", "exchange_data", ...):
\* JSON-native data, a list, a tuple, or something json has no encoding for
\* (an object, or a dict that holds a datetime).
Payloads == {"json", "list", "tuple", "object"}

\* What json.dump does with one free-form dict value: JSON-native values are
\* written, a tuple is written as an array, anything else raises TypeError.
JsonWritable(payload) == payload \in {"json", "list", "tuple"}

\* What json.load gives back for a written payload.
JsonReadBack(payload) == IF payload = "tuple" THEN "list" ELSE payload

\* json.dump accepts a position / trade dict iff every value is JSON-native:
\* no datetime object, no object without a JSON form.
PositionWritable(p) ==
    /\ p.signal.kind # "obj"
    /\ p.timestamp.kind # "dt"
    /\ JsonWritable(p.order)

TradeWritable(t) ==
    /\ t.timestamp.kind # "dt"
    /\ t.close_timestamp.kind # "dt"

StateWritable(st) ==
    /\ \A s \in DOMAIN st.open_positions : PositionWritable(st.open_positions[s])
    /\ \A i \in 1..Len(st.trade_history) : TradeWritable(st.trade_history[i])

\* The document json.load reads back from what json.dump wrote.
JsonRoundTrip(st) ==
    [st EXCEPT !.open_positions =
        [s \in DOMAIN st.open_positions |->
            [st.open_positions[s] EXCEPT !.order = JsonReadBack(@)]]]

\* StateManager._serialize_position: top-level datetime -> isoformat(),
\* top-level object with to_dict -> to_dict(); everything else is kept.
_serialize_position(p) ==
    [p EXCEPT !.timestamp = IsoFormat(@), !.signal = SignalToDict(@)]

\* StateManager._serialize_trade
_serialize_trade(t) ==
    [t EXCEPT !.timestamp = IsoFormat(@), !.close_timestamp = IsoFormat(@)]

\* The rotation loop of _create_backup: for i = backup_count-1 down to 1,
\* rename .bak{i} to .bak{i+1} when .bak{i} exists.
RECURSIVE RotateBackups(_, _)
RotateBackups(bak, i) ==
    IF i < 1 THEN bak
    ELSE IF bak[i].kind # "absent"
         THEN RotateBackups([bak EXCEPT ![i + 1] = bak[i], ![i] = AbsentFile], i - 1)
         ELSE RotateBackups(bak, i - 1)

\* A backup that copies the primary onto .bak1 and rotates nothing.
_create_backup_NoRotation(d) ==
    IF d.main.kind = "absent" THEN d
    ELSE [d EXCEPT !.bak = [d.bak EXCEPT ![1] = d.main]]

\* StateManager._create_backup: rotate, then rename the primary to .bak1 and
\* back, then copy the primary onto .bak1.
_create_backup(d) ==
    IF d.main.kind = "absent" THEN d
    ELSE [d EXCEPT !.bak = [RotateBackups(d.bak, Len(d.bak) - 1) EXCEPT ![1] = d.main]]

\* StateManager._save_state (lock acquired): back up the existing primary,
\* then open(..., 'w') and json.dump.  A TypeError from json.dump is caught
\* and logged, leaving the truncated, partly written file behind.
_save_state(st, d) ==
    LET backed == _create_backup(d)
    IN  [backed EXCEPT !.main = IF StateWritable(st)
                                THEN StateFile(JsonRoundTrip(st))
                                ELSE CorruptFile]

\* The backups _try_recover_from_backup can restore: those that parse.
ParsingBackups(d) == {i \in DOMAIN d.bak : d.bak[i].kind \in {"state", "misshapen"}}

\* A recovery that walks the backups from the oldest down.
_try_recover_from_backup_OldestFirst(d) ==
    IF ParsingBackups(d) = {}
    THEN [ok |-> FALSE, disk |-> d]
    ELSE LET i == CHOOSE k \in ParsingBackups(d) : \A j \in ParsingBackups(d) : k >= j
         IN  [ok |-> TRUE, disk |-> [d EXCEPT !.main = d.bak[i]]]

\* StateManager._try_recover_from_backup: the first backup, from .bak1 up,
\* that exists and parses is written over the primary.
_try_recover_from_backup(d) ==
    IF ParsingBackups(d) = {}
    THEN [ok |-> FALSE, disk |-> d]
    ELSE LET i == CHOOSE k \in ParsingBackups(d) : \A j \in ParsingBackups(d) : k <= j
         IN  [ok |-> TRUE, disk |-> [d EXCEPT !.main = d.bak[i]]]

RECURSIVE _load_or_create_state(_)

\* A load that lets the parse error out when no backup can be restored.
_load_or_create_state_Uncaught(d) ==
    IF d.main.kind = "absent" THEN [state |-> EmptyState, disk |-> d, raised |-> FALSE]
    ELSE IF d.main.kind = "state" THEN [state |-> d.main.data, disk |-> d, raised |-> FALSE]
    ELSE LET r == _try_recover_from_backup(d)
         IN  IF r.ok THEN [state |-> r.disk.main.data, disk |-> r.disk, raised |-> FALSE]
             ELSE [state |-> EmptyState, disk |-> d, raised |-> TRUE]

\* StateManager._load_or_create_state: returns the loaded state, the disk as
\* recovery left it, and whether an exception left the call (none does:
\* every exception of the load is caught).
_load_or_create_state(d) ==
    IF d.main.kind = "absent" THEN [state |-> EmptyState, disk |-> d, raised |-> FALSE]
    ELSE IF d.main.kind = "state" THEN [state |-> d.main.data, disk |-> d, raised |-> FALSE]
    ELSE LET r == _try_recover_from_backup(d)
         IN  IF r.ok THEN _load_or_create_state(r.disk)
             ELSE [state |-> EmptyState, disk |-> d, raised |-> FALSE]

(***************************************************************************)
(* StateManager operations on a store [state, disk] (auto_save = True).    *)
(***************************************************************************)
\* StateManager.__init__: the store a new manager starts with.
NewStateManager(d) ==
    LET loaded == _load_or_create_state(d)
    IN  [state |-> loaded.state, disk |-> loaded.disk]

\* StateManager.save_position
save_position(store, symbol, position_data) ==
    LET st == [store.state EXCEPT !.open_positions =
                   (symbol :> _serialize_position(position_data)) @@ @]
    IN  [state |-> st, disk |-> _save_state(st, store.disk)]

\* A remove_position that leaves the position in the state.
remove_position_Kept(store, symbol) == store

\* StateManager.remove_position: nothing happens, and nothing is saved, when
\* the symbol is not tracked.
remove_position(store, symbol) ==
    IF symbol \notin DOMAIN store.state.open_positions THEN store
    ELSE LET st == [store.state EXCEPT !.open_positions =
                        [s \in (DOMAIN @) \ {symbol} |-> @[s]]]
         IN  [state |-> st, disk |-> _save_state(st, store.disk)]

\* A save_trade that keeps the trade in memory and writes nothing.
save_trade_MemoryOnly(store, trade_data) ==
    [store EXCEPT !.state.trade_history = Append(@, _serialize_trade(trade_data))]

\* StateManager.save_trade
save_trade(store, trade_data) ==
    LET st == [store.state EXCEPT !.trade_history = Append(@, _serialize_trade(trade_data))]
    IN  [state |-> st, disk |-> _save_state(st, store.disk)]

\* StateManager.set_starting_balance
set_starting_balance(store, balance) ==
    LET st == [store.state EXCEPT !.starting_balance = balance]
    IN  [state |-> st, disk |-> _save_state(st, store.disk)]

\* StateManager.force_save
force_save(store) == [state |-> store.state, disk |-> _save_state(store.state, store.disk)]

\* A copy of the container alone: the dicts inside it are shared.
deepcopy_Shallow(value) == [value |-> value, shares |-> "records"]

\* copy.deepcopy: an equal value that shares no object with the original.
\* `shares` is what the result has in common with the state it came from:
\* "nothing", the nested "records", or "all" (the very same container).
deepcopy(value) == [value |-> value, shares |-> "nothing"]

\* StateManager.load_positions / load_trade_history: deep copies.
load_positions(store) == deepcopy(store.state.open_positions).value
load_trade_history(store) == deepcopy(store.state.trade_history).value


(***************************************************************************)
(* Inputs drawn by the environment.                                        *)
(***************************************************************************)
\* Market prices.  fetcher.get_current_price returns them, or 0.0 when its
\* venue call raises (the fetcher catches the exception).
Prices == {1000, 2000}
\* Market price seen by _place_order, 0 when the fetch failed.
OrderPrices == {0, 2000}
\* marginSummary.accountValue as the venue reports it.
AccountValues == {0, 100000}
\* The vocabulary class of an exception's message: it names a critical
\* keyword, a transient keyword, or neither.
ErrorClasses == {"critical", "transient", "unknown"}
\* The classes drawn for an exception of a call other than exchange.order:
\* no handler on its way reads the critical vocabulary, and the state it
\* leaves is the same for every class ("unknown" is handled as "transient"
\* is, with a longer sleep).
NonOrderClasses == {"critical", "transient"}
\* The answer of the account-value query: a value, or an exception.
AccountAnswers ==
    {[raised |-> "none", value |-> v] : v \in AccountValues}
    \cup {[raised |-> k, value |-> 0] : k \in NonOrderClasses}
NoAccountQuery == [raised |-> "none", value |-> 0]
\* szi per symbol as the venue reports it at startup (signed, 0 = flat).
VenueSizes == {0, 10001, -20000}
VenuePositions == [Symbols -> VenueSizes]
NoVenuePositions == [s \in Symbols |-> 0]
\* The answer of info.user_state at startup: the positions, or an exception.
VenueAnswers ==
    {[raised |-> FALSE, positions |-> v] : v \in VenuePositions}
    \cup {[raised |-> TRUE, positions |-> NoVenuePositions]}
\* entryPx of a venue position.
VenueEntryPx == 2000
\* Sizes returned by calculate_position_size.
PositionSizes == {0, 10000}
\* The latest signal of strategy.generate_signals (stop and target on the
\* sides the strategies guarantee), or no signal at all.
Signals ==
    { [direction |-> 1, stop_loss |-> 1000, take_profit |-> 3000, confidence |-> c] : c \in {40, 60} }
    \cup
    { [direction |-> -1, stop_loss |-> 3000, take_profit |-> 1000, confidence |-> c] : c \in {40, 60} }
\* The venue call of a tick that raised ("account", "price", "candles",
\* "order" or "close") and the class of its message; none did.
NoError == [call |-> "none", class |-> "none"]
Raised(call, class) == [call |-> call, class |-> class]
\* exchange.order's answer to an entry order: accepted, refused, or an
\* exception whose message is of the given class.
OrderResults == {"ok", "err"} \cup ErrorClasses

\* Iteration order of the symbol loops.
SymbolOrder == <<"BTC", "ETH">>

(***************************************************************************)
(* The trader.  A trader value t is the record of the instance attributes  *)
(* of HyperliquidTestnetTrader / HyperliquidTrader, with t.store the       *)
(* StateManager (its in-memory TradingState and the files it writes).      *)
(***************************************************************************)
max_daily_drawdown(net) == IF net = "mainnet" THEN MainnetMaxDrawdownPct ELSE TestnetMaxDrawdownPct
max_daily_trades(net) == IF net = "mainnet" THEN MainnetMaxDailyTrades ELSE TestnetMaxDailyTrades

NoTimestamp == [kind |-> "none", day |-> 0]

\* `if signal and hasattr(signal, "direction")`: only a live Signal object
\* carries a direction; a dict or None falls back to long.
IsLong(position) ==
    IF position.signal.kind = "obj" THEN position.signal.direction = 1 ELSE TRUE

\* (exit - entry) * size for a long, (entry - exit) * size for a short.
PnL(position, price) ==
    IF IsLong(position) THEN (price - position.entry_price) * position.size
    ELSE (position.entry_price - price) * position.size

RECURSIVE SumOver(_, _)
SumOver(f, S) ==
    IF S = {} THEN 0
    ELSE LET x == CHOOSE y \in S : TRUE IN f[x] + SumOver(f, S \ {x})

\* _get_simulated_portfolio_value, in dollars times SizeUnit: starting
\* balance, plus unrealized P&L of the open positions, plus the P&L of the
\* trades whose status is "closed".
_get_simulated_portfolio_value(t) ==
    LET unreal == [s \in DOMAIN t.open_positions |-> t.open_positions[s].unrealized_pnl]
        real == [i \in 1..Len(t.trade_history) |->
                    IF t.trade_history[i].status = "closed" THEN t.trade_history[i].pnl ELSE 0]
        value == t.starting_balance * SizeUnit
                 + SumOver(unreal, DOMAIN unreal) + SumOver(real, DOMAIN real)
    IN  IF value < 0 THEN 0 ELSE value

\* _get_actual_portfolio_value: the venue's account value; every exception
\* is caught and answered with the default 100000.
_get_actual_portfolio_value(account) ==
    IF account.raised # "none" THEN DefaultAccountValue ELSE account.value

\* _get_portfolio_value, in dollars times SizeUnit.
_get_portfolio_value(t, account) ==
    IF t.simulation_mode THEN _get_simulated_portfolio_value(t)
    ELSE _get_actual_portfolio_value(account) * SizeUnit

\* A count over the whole trade history, whatever the day.
_count_today_trades_AllHistory(t, now) == Len(t.trade_history)

\* _count_today_trades: trades whose timestamp (datetime or ISO string)
\* falls on today's date.
_count_today_trades(t, now) ==
    Cardinality({i \in 1..Len(t.trade_history) :
        /\ t.trade_history[i].timestamp.kind \in {"dt", "iso"}
        /\ t.trade_history[i].timestamp.day = now})

\* HyperliquidTrader._print_summary (mainnet) saves once more.
_print_summary(t, net) ==
    IF net = "mainnet" THEN [t EXCEPT !.store = force_save(@)] ELSE t

\* The figures _print_summary logs: total trades and open positions (the
\* portfolio value line reads the account and changes nothing).
SessionSummary(t) ==
    [trades |-> Len(t.trade_history), positions |-> Cardinality(DOMAIN t.open_positions)]

\* A stop that clears is_running and writes nothing.
stop_WithoutSave(t, net) == [t EXCEPT !.is_running = FALSE]

\* stop(): clear is_running, force_save, print the summary.
stop(t, net) ==
    _print_summary([t EXCEPT !.is_running = FALSE, !.store = force_save(@)], net)

\* Index of the newest trade of `symbol` with status "OPEN", 0 if none.
NewestOpenTrade(history, symbol) ==
    LET open == {i \in 1..Len(history) :
                    history[i].symbol = symbol /\ history[i].status = "OPEN"}
    IN  IF open = {} THEN 0 ELSE CHOOSE i \in open : \A j \in open : j <= i

\* _close_position: compute P&L, send the close order unless simulating (an
\* exception from it is caught and logged), close the newest open trade of
\* the symbol in self.trade_history, drop the position from
\* self.open_positions and from the StateManager, force_save.
_close_position(t, symbol, exit_price, reason, now) ==
    IF symbol \notin DOMAIN t.open_positions THEN t
    ELSE LET position == t.open_positions[symbol]
             pnl == PnL(position, exit_price)
             k == NewestOpenTrade(t.trade_history, symbol)
             history == IF k = 0 THEN t.trade_history
                        ELSE [t.trade_history EXCEPT ![k] =
                                [@ EXCEPT !.exit_price = exit_price,
                                          !.pnl = pnl,
                                          !.status = "CLOSED",
                                          !.close_reason = reason,
                                          !.close_timestamp = DateTime(now)]]
         IN  [t EXCEPT !.trade_history = history,
                       !.open_positions = [s \in (DOMAIN @) \ {symbol} |-> @[s]],
                       !.store = force_save(remove_position(@, symbol))]

\* The stop-loss test of _monitor_positions.
StopLossHit(position, price) ==
    /\ position.stop_loss # 0
    /\ \/ IsLong(position) /\ price <= position.stop_loss
       \/ ~IsLong(position) /\ price >= position.stop_loss

\* The take-profit test of _monitor_positions.
TakeProfitHit(position, price) ==
    /\ position.take_profit # 0
    /\ \/ IsLong(position) /\ price >= position.take_profit
       \/ ~IsLong(position) /\ price <= position.take_profit

\* One pass of the loop body of _monitor_positions for `symbol`.
MonitorOne(t, symbol, price, now) ==
    IF symbol \notin DOMAIN t.open_positions \/ price <= 0 THEN t
    ELSE LET position == t.open_positions[symbol]
         IN  IF StopLossHit(position, price)
             THEN _close_position(t, symbol, price, "STOP_LOSS", now)
             ELSE IF TakeProfitHit(position, price)
             THEN _close_position(t, symbol, price, "TAKE_PROFIT", now)
             ELSE IF t.simulation_mode
             THEN [t EXCEPT !.open_positions[symbol].unrealized_pnl = PnL(position, price)]
             ELSE t

RECURSIVE MonitorFrom(_, _, _, _)
MonitorFrom(t, i, prices, now) ==
    IF i > Len(SymbolOrder) THEN t
    ELSE LET s == SymbolOrder[i]
             p == IF s \in DOMAIN prices THEN prices[s] ELSE 0
         IN  MonitorFrom(MonitorOne(t, s, p, now), i + 1, prices, now)

\* A monitoring pass that closes nothing before the signal is evaluated.
_monitor_positions_Deferred(t, prices, now) == t

\* _monitor_positions: every open position is checked against its price.
_monitor_positions(t, prices, now) == MonitorFrom(t, 1, prices, now)

\* A breaker check that never starts a new trading day.
DailyReset_Never(t, now) == t

\* The reset of _check_circuit_breakers on a new local day.
DailyReset(t, now) ==
    IF now # t._circuit_breaker_date
    THEN [t EXCEPT !._circuit_breaker_date = now, !.circuit_breaker_triggered = FALSE]
    ELSE t

\* _check_circuit_breakers: daily reset, latch, drawdown limit, trade-count
\* limit.  Returns the verdict and the trader as the check left it.
_check_circuit_breakers(t, net, account, now) ==
    LET t1 == DailyReset(t, now)
        current == _get_portfolio_value(t1, account)
        start == t1.starting_balance * SizeUnit
        \* (start - current) / start > max_daily_drawdown, multiplied out
        \* (the limit is a percentage and SizeUnit a multiple of 100).
        over == /\ t1.starting_balance > 0
                /\ start - current > max_daily_drawdown(net) * t1.starting_balance * (SizeUnit \div 100)
    IN  IF t1.circuit_breaker_triggered
        THEN [ok |-> FALSE, drawdown |-> FALSE, t |-> t1]
        ELSE IF over
        THEN [ok |-> FALSE, drawdown |-> TRUE,
              t |-> stop([t1 EXCEPT !.circuit_breaker_triggered = TRUE], net)]
        ELSE IF _count_today_trades(t1, now) > max_daily_trades(net)
        THEN [ok |-> FALSE, drawdown |-> FALSE,
              t |-> stop([t1 EXCEPT !.circuit_breaker_triggered = TRUE], net)]
        ELSE [ok |-> TRUE, drawdown |-> FALSE, t |-> t1]

\* Python's round(): n / d to the nearest integer, ties to even.
RoundDiv(n, d) ==
    LET q == n \div d
        r == n % d
    IN  IF 2 * r < d THEN q
        ELSE IF 2 * r > d THEN q + 1
        ELSE IF q % 2 = 0 THEN q ELSE q + 1

\* The limit price of _place_order for BTC (tick size 1): the market price
\* moved by limit_price_offset_percent, then round().
LimitPrice(is_buy, price) ==
    IF is_buy THEN RoundDiv(price * (1000 - OffsetPerMille), 1000)
    ELSE RoundDiv(price * (1000 + OffsetPerMille), 1000)

\* _place_order once exchange.order has answered `result`: an "ok" order is
\* tracked as a position and recorded as an open trade, both saved at once.
_place_order(t, signal, size, price, now) ==
    LET symbol == default_symbol
        is_buy == signal.direction = 1
        limit_price == LimitPrice(is_buy, price)
        position_data == [signal |-> SignalObj(signal.direction),
                          size |-> size,
                          entry_price |-> limit_price,
                          stop_loss |-> signal.stop_loss,
                          take_profit |-> signal.take_profit,
                          timestamp |-> DateTime(now),
                          order |-> "json",
                          unrealized_pnl |-> 0,
                          synced_from_exchange |-> FALSE]
        trade_data == [timestamp |-> DateTime(now),
                       symbol |-> symbol,
                       direction |-> IF is_buy THEN "LONG" ELSE "SHORT",
                       size |-> size,
                       entry_price |-> limit_price,
                       stop_loss |-> signal.stop_loss,
                       confidence |-> signal.confidence,
                       status |-> "OPEN",
                       exit_price |-> 0,
                       pnl |-> 0,
                       close_reason |-> "",
                       close_timestamp |-> NoTimestamp]
    IN  [t EXCEPT !.open_positions = (symbol :> position_data) @@ @,
                       !.trade_history = Append(@, trade_data),
                       !.store = save_trade(save_position(@, symbol, position_data), trade_data)]


\* The venue's positions with a non-zero size (exchange_pos_map).
ExchangeSymbols(venue) == {s \in Symbols : venue[s] # 0}

Abs(x) == IF x < 0 THEN -x ELSE x

\* An adopted position that keeps the venue's signed size.
SyncedPosition_SignedSize(szi, now) ==
    [signal |-> NoSignal,
     size |-> szi,
     entry_price |-> VenueEntryPx,
     stop_loss |-> 0,
     take_profit |-> 0,
     timestamp |-> DateTime(now),
     order |-> "json",
     unrealized_pnl |-> 0,
     synced_from_exchange |-> TRUE]

\* Position adopted from the venue: no signal, no stop, no target, flagged.
SyncedPosition(szi, now) ==
    [signal |-> NoSignal,
     size |-> Abs(szi),
     entry_price |-> VenueEntryPx,
     stop_loss |-> 0,
     take_profit |-> 0,
     timestamp |-> DateTime(now),
     order |-> "json",
     unrealized_pnl |-> 0,
     synced_from_exchange |-> TRUE]

\* "Remove positions that don't exist on exchange"
RECURSIVE SyncRemove(_, _, _)
SyncRemove(t, i, extra) ==
    IF i > Len(SymbolOrder) THEN t
    ELSE LET s == SymbolOrder[i]
         IN  IF s \in extra
             THEN SyncRemove([t EXCEPT !.open_positions = [x \in (DOMAIN @) \ {s} |-> @[x]],
                                       !.store = remove_position(@, s)], i + 1, extra)
             ELSE SyncRemove(t, i + 1, extra)

\* "Add positions that exist on exchange but not in state"
RECURSIVE SyncAdd(_, _, _, _, _)
SyncAdd(t, i, missing, venue, now) ==
    IF i > Len(SymbolOrder) THEN t
    ELSE LET s == SymbolOrder[i]
             position_data == SyncedPosition(venue[s], now)
         IN  IF s \in missing
             THEN SyncAdd([t EXCEPT !.open_positions = (s :> position_data) @@ @,
                                    !.store = save_position(@, s, position_data)],
                          i + 1, missing, venue, now)
             ELSE SyncAdd(t, i + 1, missing, venue, now)

\* "Compare sizes for positions that exist in both"
RECURSIVE SyncSizes(_, _, _, _)
SyncSizes(t, i, common, venue) ==
    IF i > Len(SymbolOrder) THEN t
    ELSE LET s == SymbolOrder[i]
         IN  IF s \in common /\ Abs(t.open_positions[s].size - Abs(venue[s])) > SizeTolerance
             THEN LET resized == [t.open_positions[s] EXCEPT !.size = Abs(venue[s])]
                  IN  SyncSizes([t EXCEPT !.open_positions[s] = resized,
                                          !.store = save_position(@, s, resized)],
                                i + 1, common, venue)
             ELSE SyncSizes(t, i + 1, common, venue)

\* _sync_positions_with_exchange: skipped in simulation mode; an exception
\* from the venue query is caught and the local state kept.
_sync_positions_with_exchange(t, venue, now) ==
    IF t.simulation_mode \/ venue.raised THEN t
    ELSE LET local_symbols == DOMAIN t.open_positions
             exchange_symbols == ExchangeSymbols(venue.positions)
             removed == SyncRemove(t, 1, local_symbols \ exchange_symbols)
             added == SyncAdd(removed, 1, exchange_symbols \ local_symbols, venue.positions, now)
         IN  SyncSizes(added, 1, local_symbols \cap exchange_symbols, venue.positions)

\* How the sync call of a constructor ended.
SyncOutcome(t, venue) ==
    IF t.simulation_mode THEN "skipped" ELSE IF venue.raised THEN "failed" ELSE "done"

\* The constructors up to the sync call: load the persisted state, fix the
\* starting balance and the simulation flag, arm the circuit breakers.
\*   testnet: an unfunded account (value 0) on first start trades a simulated
\*            10000; on resume simulation_mode is actual_balance == 0.
\*   mainnet: never simulation; the starting balance is the account value.
Constructed(net, d, account, now) ==
    LET loaded == NewStateManager(d)
        actual == _get_actual_portfolio_value(account)
        first == loaded.state.starting_balance = 0
        sim == net = "testnet" /\ actual = 0
        balance == IF ~first THEN loaded.state.starting_balance
                   ELSE IF sim THEN SimulatedBalance ELSE actual
    IN  [open_positions |-> load_positions(loaded),
         trade_history |-> load_trade_history(loaded),
         is_running |-> FALSE,
         starting_balance |-> balance,
         simulation_mode |-> sim,
         circuit_breaker_triggered |-> FALSE,
         _circuit_breaker_date |-> now,
         store |-> IF first THEN set_starting_balance(loaded, balance) ELSE loaded]

(***************************************************************************)
(* State.                                                                  *)
(***************************************************************************)
VARIABLES
    network,                    \* config.network of the deployment
    today,                      \* datetime.now().date(), as a day number
    disk,                       \* the state file and its backups
    pc,                         \* "down" (no process), "idle", "loop" (inside run())
    open_positions,             \* self.open_positions
    trade_history,              \* self.trade_history
    is_running,                 \* self.is_running
    starting_balance,           \* self.starting_balance
    simulation_mode,            \* self.simulation_mode
    circuit_breaker_triggered,  \* self.circuit_breaker_triggered
    _circuit_breaker_date,      \* self._circuit_breaker_date
    state_manager,              \* self.state_manager.state
    starts,                     \* processes started so far
    drawdown_day,               \* last day a tick found the drawdown limit exceeded, -1 if none
    sync,                       \* how this process's startup reconciliation ended
    strategy_output,            \* signals and size handed to an entry evaluation under way
    returned,                   \* what load_positions / load_trade_history gave a caller that holds it
    users,                      \* where each process using the state file is in its StateManager call
    managers,                   \* the state each of those processes' StateManager holds
    notebook,                   \* the AlertSystem and the LiveDataStream of a notebook session
    last                        \* what the last step did and what it was given

vars == <<network, today, disk, pc, open_positions, trade_history, is_running,
          starting_balance, simulation_mode, circuit_breaker_triggered,
          _circuit_breaker_date, state_manager, starts, drawdown_day, sync,
          strategy_output, returned, users, managers, notebook, last>>

\* The running trader as one value.
Self ==
    [open_positions |-> open_positions,
     trade_history |-> trade_history,
     is_running |-> is_running,
     starting_balance |-> starting_balance,
     simulation_mode |-> simulation_mode,
     circuit_breaker_triggered |-> circuit_breaker_triggered,
     _circuit_breaker_date |-> _circuit_breaker_date,
     store |-> [state |-> state_manager, disk |-> disk]]

Commit(t) ==
    /\ open_positions' = t.open_positions
    /\ trade_history' = t.trade_history
    /\ is_running' = t.is_running
    /\ starting_balance' = t.starting_balance
    /\ simulation_mode' = t.simulation_mode
    /\ circuit_breaker_triggered' = t.circuit_breaker_triggered
    /\ _circuit_breaker_date' = t._circuit_breaker_date
    /\ state_manager' = t.store.state
    /\ disk' = t.store.disk

\* The attributes of a process that does not exist.
NoTrader(d) ==
    [open_positions |-> EmptyMap,
     trade_history |-> <<>>,
     is_running |-> FALSE,
     starting_balance |-> 0,
     simulation_mode |-> FALSE,
     circuit_breaker_triggered |-> FALSE,
     _circuit_breaker_date |-> 0,
     store |-> [state |-> EmptyState, disk |-> d]]

NoStep == [kind |-> "none"]

\* The processes that share one state file, none of them inside a call.
Procs == {1, 2}
Idle == [op |-> "none", at |-> "idle", backup |-> 0, locked |-> FALSE]
NoUsers == [p \in Procs |-> Idle]

\* A process that has not constructed its StateManager.
NotConstructed == [constructed |-> FALSE, state |-> EmptyState]
NoManagers == [p \in Procs |-> NotConstructed]

\* No notebook session: no alert history, no stream.
NoNotebook == [alerts |-> <<>>, stream |-> "none"]

\* No caller holds a value a load returned.
NothingReturned == [held |-> FALSE]

\* No entry evaluation is under way.
NoOutput == [signals |-> <<>>, size |-> 0]

Init ==
    /\ network \in Networks
    /\ today = 0
    /\ pc = "down"
    /\ last = NoStep
    /\ starts = 0
    /\ drawdown_day = -1
    /\ sync = "none"
    /\ strategy_output = NoOutput
    /\ returned = NothingReturned
    /\ users = NoUsers
    /\ managers = NoManagers
    /\ notebook = NoNotebook
    /\ disk = NewDisk(backup_count)
    /\ open_positions = EmptyMap
    /\ trade_history = <<>>
    /\ is_running = FALSE
    /\ starting_balance = 0
    /\ simulation_mode = FALSE
    /\ circuit_breaker_triggered = FALSE
    /\ _circuit_breaker_date = 0
    /\ state_manager = EmptyState

(***************************************************************************)
(* Steps.                                                                  *)
(***************************************************************************)
\* A process starts: the constructor runs, reconciliation included.  The
\* venue's positions are asked for only when the sync is not skipped.
Start ==
    /\ pc = "down"
    /\ starts < MaxStarts
    /\ starts' = starts + 1
    /\ \E account \in AccountAnswers :
         LET before == Constructed(network, disk, account, today)
         IN  \E venue \in IF before.simulation_mode THEN {CHOOSE v \in VenueAnswers : v.raised}
                          ELSE VenueAnswers :
                /\ Commit(_sync_positions_with_exchange(before, venue, today))
                /\ sync' = SyncOutcome(before, venue)
                /\ last' = [kind |-> "start",
                            local |-> DOMAIN before.open_positions,
                            venue |-> venue.positions]
    /\ pc' = "idle"
    /\ UNCHANGED <<network, today, drawdown_day, strategy_output, returned, users, managers, notebook>>

\* run() is entered.
Run ==
    /\ pc = "idle"
    /\ Commit([Self EXCEPT !.is_running = TRUE])
    /\ pc' = "loop"
    /\ last' = NoStep
    /\ UNCHANGED <<network, today, starts, drawdown_day, sync, strategy_output, returned, users, managers, notebook>>

\* A finished tick: the trader it left and the record of what happened.
\*   breakers  verdict of _check_circuit_breakers
\*   prices    market prices of the positions open when the tick began, as
\*             fetched (0: the fetch raised) or, on a tick that fetched
\*             none, as the market had them
\*   held      symbols open once _monitor_positions was done or skipped
\*   raised    the venue call that raised and the class of its message
\*   order     "none", or the answer to the entry order that was submitted
TickDone(t, breakers, prices, held, raised, order) ==
    /\ Commit(t)
    /\ last' = [kind |-> "tick",
                breakers |-> breakers,
                prices |-> prices,
                held |-> held,
                raised |-> raised,
                order |-> order]
    /\ drawdown_day' = IF breakers = "drawdown" THEN today ELSE drawdown_day
    /\ UNCHANGED <<network, today, pc, starts, sync, strategy_output, returned, users, managers, notebook>>

\* Did _monitor_positions send a close order?
ClosedSome(before, after) == DOMAIN after.open_positions # DOMAIN before.open_positions

\* The signals the strategy can return on this tick, none once the trade
\* history is `cap` long.
SignalChoicesUpTo(t, cap) ==
    IF Len(t.trade_history) < cap
    THEN {[present |-> FALSE, signal |-> CHOOSE g \in Signals : TRUE]}
         \cup {[present |-> TRUE, signal |-> g] : g \in Signals}
    ELSE {[present |-> FALSE, signal |-> CHOOSE g \in Signals : TRUE]}

SignalChoices(t) == SignalChoicesUpTo(t, MaxTrades)

\* The entry check without its position-count test.
CanOpenPosition_NoCountLimit(t) ==
    default_symbol \notin DOMAIN t.open_positions

\* _trading_iteration, step 4: no position on the symbol yet, and fewer
\* than max_open_positions open.
CanOpenPosition(t) ==
    /\ default_symbol \notin DOMAIN t.open_positions
    /\ Cardinality(DOMAIN t.open_positions) < max_open_positions

\* _trading_iteration, step 6: _place_order and the handlers of the
\* exceptions it raises.
OrderStep(t, prices, raised, sig, size) ==
    LET held == DOMAIN t.open_positions
    IN  \E quote \in IF raised = NoError THEN OrderPrices ELSE OrderPrices \ {0} :
          IF quote <= 0
          THEN \E k \in NonOrderClasses : TickDone(t, "ok", prices, held, Raised("price", k), "none")
          ELSE \E result \in IF raised = NoError THEN OrderResults ELSE OrderResults \ ErrorClasses :
                 IF result = "ok"
                 THEN TickDone(_place_order(t, sig, size, quote, today), "ok", prices, held, raised, result)
                 ELSE IF result = "err"
                 THEN TickDone(t, "ok", prices, held, raised, result)
                 ELSE IF result = "critical"
                 THEN TickDone(stop([t EXCEPT !.circuit_breaker_triggered = TRUE], network),
                               "ok", prices, held, Raised("order", result), "raised")
                 ELSE TickDone(t, "ok", prices, held, Raised("order", result), "raised")

\* A tick that takes the oldest signal of the list.
FirstSignal(signals) == signals[1]

\* latest_signal = signals[-1]
LatestSignal(signals) == signals[Len(signals)]

\* _trading_iteration, steps 3-6, on the list of signals the strategy
\* returned and the sizes the position sizer may answer: nothing happens
\* without a signal, with a latest signal below min_confidence, with the
\* entry check failing, or with a size of 0; otherwise the order is placed.
EvaluateSignals(t, prices, raised, signals, sizes) ==
    LET held == DOMAIN t.open_positions
    IN  IF signals = <<>>
        THEN TickDone(t, "ok", prices, held, raised, "none")
        ELSE IF \/ LatestSignal(signals).confidence < min_confidence
                \/ ~CanOpenPosition(t)
        THEN TickDone(t, "ok", prices, held, raised, "none")
        ELSE \E size \in sizes :
               IF size = 0
               THEN TickDone(t, "ok", prices, held, raised, "none")
               ELSE OrderStep(t, prices, raised, LatestSignal(signals), size)

\* _trading_iteration, steps 1-5: candles, signal, entry checks, size.
SignalStepUpTo(t, prices, raised, cap) ==
    LET held == DOMAIN t.open_positions
    IN  \E candles \in IF raised = NoError THEN {"none"} \cup NonOrderClasses ELSE {"none"} :
          IF candles # "none"
          THEN TickDone(t, "ok", prices, held, Raised("candles", candles), "none")
          ELSE \E choice \in SignalChoicesUpTo(t, cap) :
                 EvaluateSignals(t, prices, raised,
                                 IF choice.present THEN <<choice.signal>> ELSE <<>>,
                                 PositionSizes)

SignalStep(t, prices, raised) == SignalStepUpTo(t, prices, raised, MaxTrades)

\* What the price fetches of _monitor_positions can return: the market
\* prices, or 0.0 for all when the venue call behind them raises.
PriceFetches(t, raised) ==
    [DOMAIN t.open_positions -> Prices]
    \cup (IF raised = NoError /\ DOMAIN t.open_positions # {}
          THEN {[s \in DOMAIN t.open_positions |-> 0]} ELSE {})

\* _trading_iteration, step 0: _monitor_positions on the fetched prices.
MonitorStepUpTo(t, raised, cap) ==
    \E fetched \in PriceFetches(t, raised) :
        LET monitored == _monitor_positions(t, fetched, today)
            failed == \E s \in DOMAIN fetched : fetched[s] = 0
            closing == ~t.simulation_mode /\ ClosedSome(t, monitored)
        IN  \E k \in IF failed THEN NonOrderClasses ELSE {"none"},
               close \in IF raised = NoError /\ closing THEN {"none"} \cup NonOrderClasses ELSE {"none"} :
                SignalStepUpTo(monitored, fetched,
                               IF failed THEN Raised("price", k)
                               ELSE IF close # "none" THEN Raised("close", close)
                               ELSE raised,
                               cap)

MonitorStep(t, raised) == MonitorStepUpTo(t, raised, MaxTrades)

\* A loop that goes on whatever is_running says.
LoopCondition_Always(t) == TRUE

\* `while self.is_running:`
LoopCondition(t) == t.is_running

\* One tick of the loop: _trading_iteration.  At most one venue call raises
\* in a tick.
TickUpTo(cap) ==
    /\ pc = "loop"
    /\ LoopCondition(Self)
    /\ LET latched == today = _circuit_breaker_date /\ circuit_breaker_triggered
       IN  \E account \in IF latched \/ simulation_mode THEN {NoAccountQuery} ELSE AccountAnswers :
             LET cb == _check_circuit_breakers(Self, network, account, today)
                 raised == IF account.raised # "none" THEN Raised("account", account.raised)
                           ELSE NoError
             IN  IF cb.ok
                 THEN MonitorStepUpTo(cb.t, raised, cap)
                 ELSE \E prices \in [DOMAIN open_positions -> Prices] :
                        TickDone(cb.t,
                                 IF latched THEN "latched"
                                 ELSE IF cb.drawdown THEN "drawdown" ELSE "trades",
                                 prices, DOMAIN open_positions, raised, "none")

Tick == TickUpTo(MaxTrades)

\* run() is left: `finally: self.stop()`, and run() returns.  The record
\* keeps the way the loop ended and the summary stop() logged.
RunEnds(way) ==
    /\ pc = "loop"
    /\ Commit(stop(Self, network))
    /\ pc' = "idle"
    /\ last' = [kind |-> "stopped", way |-> way,
                summary |-> SessionSummary(stop(Self, network))]
    /\ UNCHANGED <<network, today, starts, drawdown_day, sync, strategy_output, returned, users, managers, notebook>>

\* run() returns because is_running was cleared (a stop request, a critical
\* error, a breaker trip): the while condition fails.
LoopExit == ~is_running /\ RunEnds("stop")

\* run() returns because duration_seconds elapsed: break.
DurationElapsed == is_running /\ RunEnds("duration")

\* KeyboardInterrupt reaches run() during a tick or the sleep.
Interrupted == is_running /\ RunEnds("interrupt")

\* An exception leaves the loop body (_trading_iteration catches its own).
LoopRaised == is_running /\ RunEnds("exception")

\* SIGINT or SIGTERM under the command line's handler: trader.stop(), then
\* sys.exit(0); SystemExit passes through run()'s finally, which stops once
\* more, and the process exits.
Terminated ==
    /\ pc = "loop"
    /\ is_running
    /\ LET stopped == stop(stop(Self, network), network)
       IN  /\ Commit(NoTrader(stopped.store.disk))
           /\ last' = [kind |-> "stopped", way |-> "signal",
                       summary |-> SessionSummary(stopped)]
    /\ pc' = "down"
    /\ sync' = "none"
    /\ UNCHANGED <<network, today, starts, drawdown_day, strategy_output, returned, users, managers, notebook>>

\* stop() is called from outside the loop (another thread, a handler) while
\* the loop sleeps or a tick is under way.  The tick reads is_running
\* nowhere, so the request meets the loop at its next `while` test.
StopRequest ==
    /\ pc = "loop"
    /\ is_running
    /\ Commit(stop(Self, network))
    /\ last' = [kind |-> "request"]
    /\ UNCHANGED <<network, today, pc, starts, drawdown_day, sync, strategy_output, returned, users, managers, notebook>>

\* The process dies; only the files survive.
Kill ==
    /\ pc # "down"
    /\ Commit(NoTrader(disk))
    /\ pc' = "down"
    /\ sync' = "none"
    /\ last' = NoStep
    /\ UNCHANGED <<network, today, starts, drawdown_day, strategy_output, returned, users, managers, notebook>>

\* Midnight passes.
AdvanceDay ==
    /\ today < MaxDay
    /\ today' = today + 1
    /\ last' = NoStep
    /\ UNCHANGED <<network, disk, pc, open_positions, trade_history, is_running,
                   starting_balance, simulation_mode, circuit_breaker_triggered,
                   _circuit_breaker_date, state_manager, starts, drawdown_day, sync,
                   strategy_output, returned, users, managers, notebook>>

Next ==
    \/ Start
    \/ Run
    \/ Tick
    \/ LoopExit
    \/ DurationElapsed
    \/ Interrupted
    \/ LoopRaised
    \/ Terminated
    \/ StopRequest
    \/ Kill
    \/ AdvanceDay

Spec == Init /\ [][Next]_vars

(***************************************************************************)
(* Properties of the trading loop.                                         *)
(***************************************************************************)
\* The last step was a tick.
Ticked == last.kind = "tick"

\* The trade history a fresh StateManager loads from the files.
PersistedState == NewStateManager(disk).state

\* Position `s`, still open after the last tick, was open when that tick
\* began and the tick's price for it crosses its stop-loss or take-profit.
CrossedAndOpen(s) ==
    /\ s \in DOMAIN last.prices
    /\ s \in DOMAIN open_positions
    /\ ~(last.order = "ok" /\ s = default_symbol)
    /\ last.prices[s] > 0
    /\ \/ StopLossHit(open_positions[s], last.prices[s])
       \/ TakeProfitHit(open_positions[s], last.prices[s])

\* C1: every tick monitors the open positions, ticks on which a circuit
\* breaker is tripped included: after a tick, no position that was open when
\* it began and whose stop-loss or take-profit its price crosses is still
\* open.
C1_MonitoringOnEveryTick ==
    Ticked => \A s \in Symbols : ~CrossedAndOpen(s)

\* C2: once a tick finds the drawdown limit exceeded, that tick and every
\* later tick of the same calendar day submit no entry order and open no
\* position; the detecting tick leaves is_running false; a starting balance
\* of 0 never trips the drawdown breaker.
C2_DrawdownHaltsEntriesForTheDay ==
    /\ (Ticked /\ drawdown_day = today) => last.order = "none"
    /\ (Ticked /\ last.breakers = "drawdown") => ~is_running /\ starting_balance > 0

C4_ClosedTradePersisted ==
    \A i \in 1..Len(trade_history) :
        trade_history[i].status = "CLOSED" =>
            /\ i <= Len(PersistedState.trade_history)
            /\ PersistedState.trade_history[i].status = "CLOSED"
            /\ PersistedState.trade_history[i].exit_price = trade_history[i].exit_price
            /\ PersistedState.trade_history[i].pnl = trade_history[i].pnl
            /\ PersistedState.trade_history[i].close_reason = trade_history[i].close_reason

\* The venue's symbols with a non-zero size, as the last start was told.
VenueOpen == {s \in Symbols : last.venue[s] # 0}

\* Position p has the venue's absolute size for `s`, within 0.0001.
SizeAgrees(p, s) ==
    LET szi == last.venue[s]
        venue_size == IF szi < 0 THEN 0 - szi ELSE szi
    IN  /\ p.size - venue_size <= SizeTolerance
        /\ venue_size - p.size <= SizeTolerance

\* Position p is one adopted from the venue.
Adopted(p) == p.stop_loss = 0 /\ p.take_profit = 0 /\ p.synced_from_exchange

\* C8: after a startup reconciliation that reached the venue, the trader's
\* map, the State Store and the state file hold exactly the venue's symbols
\* of non-zero size; a symbol that was not held locally is adopted without
\* stop-loss and take-profit and flagged as synced; every size is the
\* venue's absolute size within 0.0001.
C8_ReconciledWithVenue ==
    (last.kind = "start" /\ sync = "done") =>
        /\ DOMAIN open_positions = VenueOpen
        /\ DOMAIN state_manager.open_positions = VenueOpen
        /\ DOMAIN PersistedState.open_positions = VenueOpen
        /\ \A s \in VenueOpen :
            /\ SizeAgrees(open_positions[s], s)
            /\ SizeAgrees(state_manager.open_positions[s], s)
            /\ SizeAgrees(PersistedState.open_positions[s], s)
            /\ s \notin last.local =>
                /\ Adopted(open_positions[s])
                /\ Adopted(state_manager.open_positions[s])
                /\ Adopted(PersistedState.open_positions[s])

\* C8 witness: a reconciliation that dropped a local-only position and
\* adopted a venue-only one.
C8_Witness_DroppedAndAdopted ==
    /\ last.kind = "start"
    /\ sync = "done"
    /\ last.local \ VenueOpen # {}
    /\ VenueOpen \ last.local # {}

\* C9: whenever a tick has run, the reconciliation of the process that ran
\* it was completed at startup (or had nothing to reconcile against: the
\* simulated account).
C9_ReconciledBeforeFirstTick ==
    Ticked => sync \in {"done", "skipped"}

\* C10: a tick in which a venue call raised an exception whose message
\* names a critical keyword leaves the loop stopped, with the state
\* persisted.
C10_CriticalErrorStopsLoop ==
    (Ticked /\ last.raised.class = "critical") =>
        /\ ~is_running
        /\ PersistedState = state_manager

\* The price of the tick being taken crosses the stop-loss or take-profit of
\* position `s`, open before the tick.
CrossingNow(s) ==
    /\ s \in DOMAIN last'.prices
    /\ last'.prices[s] > 0
    /\ \/ StopLossHit(open_positions[s], last'.prices[s])
       \/ TakeProfitHit(open_positions[s], last'.prices[s])

\* C11: a tick in which a venue call raised an exception of the transient
\* vocabulary, or of neither vocabulary, leaves the loop running (is_running
\* true, still inside run()) and the failed step changes neither the open
\* positions nor the trade history: a failed price fetch, candle fetch or
\* entry order adds no position and no trade to what monitoring left, and
\* after a failed close order a position it was to close is still open.
C11_TransientErrorKeepsLoopRunning ==
    [][ (last'.kind = "tick" /\ last'.raised.class \in {"transient", "unknown"}) =>
          /\ is_running' /\ pc' = "loop"
          /\ last'.raised.call \in {"price", "candles", "order"} =>
                /\ DOMAIN open_positions' = last'.held
                /\ Len(trade_history') = Len(trade_history)
          /\ last'.raised.call = "close" =>
                \E s \in DOMAIN open_positions :
                    CrossingNow(s) /\ s \in DOMAIN open_positions'
      ]_vars

\* Position p was opened short: the signal it was opened on, live or as
\* persisted, has direction -1.
OpenedShort(p) == p.signal.kind # "none" /\ p.signal.direction = -1

\* The tick being taken closed position `s` and recorded `reason` on its
\* open trade.
ClosedWith(s, reason) ==
    LET k == NewestOpenTrade(trade_history, s)
    IN  /\ s \notin last'.held
        /\ k # 0 => /\ trade_history'[k].status = "CLOSED"
                    /\ trade_history'[k].close_reason = reason

\* The tick being taken left position `s` open, its entry, stop, target and
\* size as they were.
StaysOpen(s) ==
    /\ s \in last'.held
    /\ s \in DOMAIN open_positions'
    /\ open_positions'[s].entry_price = open_positions[s].entry_price
    /\ open_positions'[s].stop_loss = open_positions[s].stop_loss
    /\ open_positions'[s].take_profit = open_positions[s].take_profit
    /\ open_positions'[s].size = open_positions[s].size

\* C12: monitoring is direction-aware.  On a tick that monitors, for every
\* open position with a fetched price p > 0: a long is closed with STOP_LOSS
\* iff p <= stop_loss, otherwise with TAKE_PROFIT iff p >= take_profit; a
\* short is closed with STOP_LOSS iff p >= stop_loss, otherwise with
\* TAKE_PROFIT iff p <= take_profit; in every other case it stays open with
\* entry, stop, target and size unchanged.
C12_DirectionAwareMonitoring ==
    [][ (last'.kind = "tick" /\ last'.breakers = "ok") =>
          \A s \in DOMAIN open_positions :
            (s \in DOMAIN last'.prices /\ last'.prices[s] > 0) =>
              LET pos == open_positions[s]
                  p == last'.prices[s]
                  sl == /\ pos.stop_loss # 0
                        /\ IF OpenedShort(pos) THEN p >= pos.stop_loss ELSE p <= pos.stop_loss
                  tp == /\ pos.take_profit # 0
                        /\ IF OpenedShort(pos) THEN p <= pos.take_profit ELSE p >= pos.take_profit
              IN  IF sl THEN ClosedWith(s, "STOP_LOSS")
                  ELSE IF tp THEN ClosedWith(s, "TAKE_PROFIT")
                  ELSE StaysOpen(s)
      ]_vars

\* C15: breakers are tracked per local day.  A tick on the day of a trip is
\* turned away by the latch; the first tick of a later day moves the breaker
\* date to that day and is not turned away by the latch, and when no
\* breaker condition holds on that day the tick goes on to monitoring and
\* entry evaluation and, unless a critical error trips the breaker anew,
\* leaves the latch clear.
C15_BreakersResetAtDayRollover ==
    [][ (last'.kind = "tick" /\ circuit_breaker_triggered) =>
          IF _circuit_breaker_date = today
          THEN last'.breakers = "latched" /\ circuit_breaker_triggered'
          ELSE /\ _circuit_breaker_date' = today
               /\ last'.breakers \in {"ok", "drawdown", "trades"}
               /\ (last'.breakers = "ok" /\ last'.raised.class # "critical") =>
                     ~circuit_breaker_triggered'
               /\ last'.breakers # "ok" => circuit_breaker_triggered'
      ]_vars

\* C15 witness: the drawdown breaker tripped on day 0, the loop was running
\* on day 1, and a tick of day 1 found the latch clear and submitted an
\* entry order.
C15_Witness_EntryOnNextDay ==
    /\ Ticked
    /\ drawdown_day = 0
    /\ today = 1
    /\ _circuit_breaker_date = 1
    /\ starts = 1
    /\ last.breakers = "ok"
    /\ last.order = "ok"
    /\ ~circuit_breaker_triggered

\* The ways run() ends that the program handles.
Ways == {"stop", "duration", "interrupt", "exception", "signal"}

C18_NoTickAfterStop ==
    [][ (pc = "loop" /\ ~is_running) =>
          /\ last'.kind # "tick"
          /\ ~is_running'
          /\ last'.kind = "stopped" => last'.way = "stop"
      ]_vars

\* C18 witness: a loop that had opened a position was asked to stop, with no
\* breaker tripped, and run() returned through the cleared loop condition
\* with the position still open.
C18_Witness_StoppedOnRequest ==
    /\ last.kind = "stopped"
    /\ last.way = "stop"
    /\ pc = "idle"
    /\ ~is_running
    /\ ~circuit_breaker_triggered
    /\ last.summary.trades > 0
    /\ last.summary.positions > 0

(***************************************************************************)
(* The loop followed from its first open position on: ticks that close the *)
(* position and may enter again.                                           *)
(***************************************************************************)
\* A trader inside run() whose first entry order was just accepted: the
\* constructor ran on a new state file, run() was entered, and _place_order
\* opened a position on a qualifying signal.
ReentryInit ==
    \E net \in Networks, value \in AccountValues, g \in Signals :
        LET t0 == Constructed(net, NewDisk(backup_count), [raised |-> "none", value |-> value], 0)
            t1 == _place_order([t0 EXCEPT !.is_running = TRUE], g, SizeUnit, VenueEntryPx, 0)
        IN  /\ g.confidence >= min_confidence
            /\ network = net
            /\ today = 0
            /\ pc = "loop"
            /\ starts = 1
            /\ drawdown_day = -1
            /\ sync = SyncOutcome(t0, [raised |-> FALSE, positions |-> NoVenuePositions])
            /\ last = NoStep
            /\ strategy_output = NoOutput
            /\ returned = NothingReturned
            /\ users = NoUsers
            /\ managers = NoManagers
            /\ notebook = NoNotebook
            /\ open_positions = t1.open_positions
            /\ trade_history = t1.trade_history
            /\ is_running = t1.is_running
            /\ starting_balance = t1.starting_balance
            /\ simulation_mode = t1.simulation_mode
            /\ circuit_breaker_triggered = t1.circuit_breaker_triggered
            /\ _circuit_breaker_date = t1._circuit_breaker_date
            /\ state_manager = t1.store.state
            /\ disk = t1.store.disk

\* One tick of that loop.
ReentryTick == TickUpTo(MaxReentryTrades)

ReentryNext == ReentryTick

ReentrySpec == ReentryInit /\ [][ReentryNext]_vars

\* C13: within a tick, monitoring runs before the signal is evaluated and
\* the entry check sees what monitoring left: a position whose stop-loss or
\* take-profit the tick's price crosses is closed and is not among the
\* positions the entry check counts, nothing is among them that was not open
\* before, and an accepted entry order opens its position on a symbol the
\* entry check saw as free.
C13_MonitoringBeforeSignal ==
    [][ (last'.kind = "tick" /\ last'.breakers = "ok") =>
          /\ \A s \in DOMAIN open_positions : CrossingNow(s) => s \notin last'.held
          /\ last'.held \subseteq DOMAIN open_positions
          /\ last'.order = "ok" =>
                /\ default_symbol \notin last'.held
                /\ default_symbol \in DOMAIN open_positions'
                /\ Cardinality(last'.held) < max_open_positions
      ]_vars

\* C13 witness: a tick that began with a position on the traded symbol,
\* closed it in monitoring, and opened a new one on the same symbol with the
\* slot it freed.
C13_Witness_ClosedAndReentered ==
    /\ Ticked
    /\ default_symbol \in DOMAIN last.prices
    /\ default_symbol \notin last.held
    /\ last.order = "ok"
    /\ default_symbol \in DOMAIN open_positions
    /\ Len(trade_history) = 2
    /\ trade_history[1].status = "CLOSED"

(***************************************************************************)
(* The entry evaluation of a tick, on the signals and the size it is       *)
(* handed.                                                                 *)
(***************************************************************************)
\* The lists strategy.generate_signals can return, oldest signal first.
SignalLists == UNION {[1..n -> Signals] : n \in 0..MaxSignals}

\* A trader inside run() after a first start, at the point of a tick where
\* the strategy has returned its signals and the sizer its size.
EntryInit ==
    \E net \in Networks, value \in AccountValues, venue \in VenuePositions,
       signals \in SignalLists, size \in PositionSizes :
        LET account == [raised |-> "none", value |-> value]
            answer == [raised |-> FALSE, positions |-> venue]
            t0 == Constructed(net, NewDisk(backup_count), account, 0)
            t1 == [_sync_positions_with_exchange(t0, answer, 0) EXCEPT !.is_running = TRUE]
        IN  /\ t0.simulation_mode => venue = NoVenuePositions
            /\ network = net
            /\ today = 0
            /\ pc = "loop"
            /\ starts = 1
            /\ drawdown_day = -1
            /\ sync = SyncOutcome(t0, answer)
            /\ last = NoStep
            /\ strategy_output = [signals |-> signals, size |-> size]
            /\ returned = NothingReturned
            /\ users = NoUsers
            /\ managers = NoManagers
            /\ notebook = NoNotebook
            /\ open_positions = t1.open_positions
            /\ trade_history = t1.trade_history
            /\ is_running = t1.is_running
            /\ starting_balance = t1.starting_balance
            /\ simulation_mode = t1.simulation_mode
            /\ circuit_breaker_triggered = t1.circuit_breaker_triggered
            /\ _circuit_breaker_date = t1._circuit_breaker_date
            /\ state_manager = t1.store.state
            /\ disk = t1.store.disk

\* Steps 3-6 of the tick, on what the strategy and the sizer returned.
Evaluate ==
    /\ pc = "loop"
    /\ last = NoStep
    /\ EvaluateSignals(Self, [s \in DOMAIN open_positions |-> VenueEntryPx], NoError,
                       strategy_output.signals, {strategy_output.size})

EntryNext == Evaluate

EntrySpec == EntryInit /\ [][EntryNext]_vars

ClosedTrade(timestamp) ==
    [timestamp |-> timestamp,
     symbol |-> default_symbol,
     direction |-> "LONG",
     size |-> SizeUnit,
     entry_price |-> VenueEntryPx,
     stop_loss |-> 0,
     confidence |-> min_confidence,
     status |-> "CLOSED",
     exit_price |-> VenueEntryPx,
     pnl |-> 0,
     close_reason |-> "TAKE_PROFIT",
     close_timestamp |-> timestamp]

\* n trades of one day, as the session made them.
TradesOf(day, n) == [i \in 1..n |-> ClosedTrade(DateTime(day))]

\* The state file a previous session left: its trades as _serialize_trade
\* wrote them.
LeftBy(trades, balance) ==
    _save_state([EmptyState EXCEPT !.trade_history = [i \in 1..Len(trades) |-> _serialize_trade(trades[i])],
                                   !.starting_balance = balance],
                NewDisk(backup_count))

\* The trader after this session's trades: appended to self.trade_history
\* as made, handed to save_trade one by one.
WithSessionTrades(t, trades) ==
    [t EXCEPT !.trade_history = @ \o trades,
              !.store = force_save([@ EXCEPT !.state.trade_history =
                                       @ \o [i \in 1..Len(trades) |-> _serialize_trade(trades[i])]])]

\* A running trader on day 1.  The state file it loaded holds trades of day
\* 0 and, when the process was started on day 1, trades of day 1; the
\* session added trades of day 0 (when started then) and of day 1.
CountInit ==
    \E net \in Networks, loaded_earlier \in {0, MaxEarlier}, earlier \in 0..1,
       loaded_today \in 0..MaxToday, made_today \in 0..MaxToday :
        LET balance == DefaultAccountValue
            account == [raised |-> "none", value |-> balance]
            found == LeftBy(TradesOf(0, loaded_earlier) \o TradesOf(1, loaded_today), balance)
            t0 == Constructed(net, found, account, IF earlier > 0 THEN 0 ELSE 1)
            t1 == WithSessionTrades(t0, TradesOf(0, earlier) \o TradesOf(1, made_today))
        IN  /\ earlier > 0 => loaded_today = 0
            /\ network = net
            /\ today = 1
            /\ pc = "loop"
            /\ starts = 1
            /\ drawdown_day = -1
            /\ sync = "none"
            /\ last = NoStep
            /\ strategy_output = NoOutput
            /\ returned = NothingReturned
            /\ users = NoUsers
            /\ managers = NoManagers
            /\ notebook = NoNotebook
            /\ open_positions = t1.open_positions
            /\ trade_history = t1.trade_history
            /\ is_running = TRUE
            /\ starting_balance = t1.starting_balance
            /\ simulation_mode = t1.simulation_mode
            /\ circuit_breaker_triggered = FALSE
            /\ _circuit_breaker_date = IF made_today > 0 THEN 1 ELSE t1._circuit_breaker_date
            /\ state_manager = t1.store.state
            /\ disk = t1.store.disk

\* A tick on which the strategy returns no signal.
CountTick == TickUpTo(0)

CountNext == CountTick

CountSpec == CountInit /\ [][CountNext]_vars

\* Trade records whose timestamp falls on the current day.
TradesToday == Cardinality({i \in 1..Len(trade_history) : trade_history[i].timestamp.day = today})

\* C16: the trade-count breaker trips exactly when the trade records whose
\* timestamp falls on the current day outnumber max_daily_trades (and the
\* tick was not already turned away by the latch or the drawdown limit);
\* trades of earlier days do not count, as datetime or as ISO string.
C16_TradeCountBreaker ==
    [][ last'.kind = "tick" =>
          /\ last'.breakers = "trades" =>
                /\ TradesToday > max_daily_trades(network)
                /\ circuit_breaker_triggered'
                /\ ~is_running'
          /\ last'.breakers = "ok" => TradesToday <= max_daily_trades(network)
          /\ TradesToday > max_daily_trades(network) =>
                last'.breakers \in {"trades", "drawdown", "latched"}
      ]_vars

\* C16 witness: a history longer than the limit, holding earlier days'
\* trades as ISO strings and as datetimes and exactly max_daily_trades
\* trades of the current day, passed the breaker check.
C16_Witness_EarlierTradesNotCounted ==
    /\ Ticked
    /\ last.breakers = "ok"
    /\ TradesToday = max_daily_trades(network)
    /\ Len(trade_history) > 2 * max_daily_trades(network)
    /\ \E i \in 1..Len(trade_history) :
          trade_history[i].timestamp = [kind |-> "iso", day |-> 0]
    /\ \E i \in 1..Len(trade_history) :
          trade_history[i].timestamp = [kind |-> "dt", day |-> 0]

(***************************************************************************)
(* A StateManager used on its own: a caller's sequence of updates.         *)
(***************************************************************************)
\* The variables of the trader, idle while the StateManager is used alone.
tradingVars == <<network, today, open_positions, trade_history, is_running,
                 starting_balance, simulation_mode, circuit_breaker_triggered,
                 _circuit_breaker_date, starts, drawdown_day, sync, strategy_output, returned, users, managers>>

traderVars == <<tradingVars, notebook>>

NoTradingProcess ==
    /\ network = "testnet"
    /\ today = 0
    /\ starts = 0
    /\ drawdown_day = -1
    /\ sync = "none"
    /\ strategy_output = NoOutput
    /\ returned = NothingReturned
    /\ users = NoUsers
    /\ managers = NoManagers
    /\ open_positions = EmptyMap
    /\ trade_history = <<>>
    /\ is_running = FALSE
    /\ starting_balance = 0
    /\ simulation_mode = FALSE
    /\ circuit_breaker_triggered = FALSE
    /\ _circuit_breaker_date = 0

NoProcess ==
    /\ NoTradingProcess
    /\ notebook = NoNotebook

\* Position dicts a caller passes to save_position.
PositionInputs ==
    { [signal |-> SignalObj(1),
       size |-> SizeUnit,
       entry_price |-> VenueEntryPx,
       stop_loss |-> 0,
       take_profit |-> 0,
       timestamp |-> DateTime(0),
       order |-> payload,
       unrealized_pnl |-> 0,
       synced_from_exchange |-> FALSE] : payload \in Payloads \ {"list"} }

\* Trade dicts a caller passes to save_trade.
TradeInputs ==
    { [timestamp |-> DateTime(0),
       symbol |-> s,
       direction |-> "LONG",
       size |-> SizeUnit,
       entry_price |-> VenueEntryPx,
       stop_loss |-> 0,
       confidence |-> min_confidence,
       status |-> "OPEN",
       exit_price |-> 0,
       pnl |-> 0,
       close_reason |-> "",
       close_timestamp |-> NoTimestamp] : s \in Symbols }

\* The manager as one value, and the step that leaves it as `store`.
TheStore == [state |-> state_manager, disk |-> disk]

StoreStep(store, op) ==
    /\ state_manager' = store.state
    /\ disk' = store.disk
    /\ last' = [kind |-> op]
    /\ UNCHANGED <<traderVars, pc>>

\* StateManager(state_file) on a new file.
StoreInit ==
    /\ NoProcess
    /\ pc = "store"
    /\ disk = NewDisk(LibraryBackups)
    /\ state_manager = NewStateManager(NewDisk(LibraryBackups)).state
    /\ last = NoStep

SavePosition ==
    \E symbol \in Symbols, position_data \in PositionInputs :
        StoreStep(save_position(TheStore, symbol, position_data), "save_position")

RemovePosition ==
    \E symbol \in Symbols :
        StoreStep(remove_position(TheStore, symbol), "remove_position")

SaveTrade ==
    /\ Len(state_manager.trade_history) < MaxTrades
    /\ \E trade_data \in TradeInputs :
        StoreStep(save_trade(TheStore, trade_data), "save_trade")

SetStartingBalance ==
    \E balance \in AccountValues :
        StoreStep(set_starting_balance(TheStore, balance), "set_starting_balance")

StoreNext ==
    \/ SavePosition
    \/ RemovePosition
    \/ SaveTrade
    \/ SetStartingBalance

StoreSpec == StoreInit /\ [][StoreNext]_vars

\* C5: after any sequence of save_position, remove_position, save_trade and
\* set_starting_balance, a fresh StateManager on the same file loads the
\* open positions, the trade history (timestamps as ISO strings) and the
\* starting balance the manager holds.  A tuple counts as equal to the list
\* JSON makes of it.
C5_StateRoundTrip ==
    /\ PersistedState.open_positions = JsonRoundTrip(state_manager).open_positions
    /\ PersistedState.trade_history = state_manager.trade_history
    /\ PersistedState.starting_balance = state_manager.starting_balance

(***************************************************************************)
(* A caller that keeps what the loads returned and changes it.             *)
(***************************************************************************)
\* The value a caller writes into a record it was handed (999 in the tests).
MutatedValue == 999

\* What a caller does to the values it holds: positions[s]["size"] = 999,
\* del positions[s], history[0]["pnl"] = 999, history.pop().
Mutations == {"set_size", "del_position", "set_pnl", "pop_trade"}

\* A mutation of a record inside the container, or of the container.
Nested(m) == m \in {"set_size", "set_pnl"}

\* The mutation `m` on a positions map and on a trade list.
MutatePositions(m, positions, s) ==
    IF s \notin DOMAIN positions THEN positions
    ELSE IF m = "set_size" THEN [positions EXCEPT ![s].size = MutatedValue]
    ELSE IF m = "del_position" THEN [k \in (DOMAIN positions) \ {s} |-> positions[k]]
    ELSE positions

MutateHistory(m, history) ==
    IF history = <<>> THEN history
    ELSE IF m = "set_pnl" THEN [history EXCEPT ![1].pnl = MutatedValue]
    ELSE IF m = "pop_trade" THEN SubSeq(history, 1, Len(history) - 1)
    ELSE history

\* Does a mutation made through an object that shares `shares` with the
\* manager's state reach that state?
Reaches(m, shares) ==
    \/ shares = "all"
    \/ shares = "records" /\ Nested(m)

\* The manager's state after the caller's mutation of what it holds.
StateAfterMutation(st, m, s, held) ==
    [st EXCEPT !.open_positions = IF Reaches(m, held.positions.shares)
                                  THEN MutatePositions(m, @, s) ELSE @,
               !.trade_history = IF Reaches(m, held.history.shares)
                                 THEN MutateHistory(m, @) ELSE @]

\* A manager that has been used, before any load.
CopyInit == StoreInit

\* The updates that build the manager's state, before the caller loads.
CopyBuild ==
    /\ ~returned.held
    /\ \/ SavePosition
       \/ SaveTrade

\* load_positions() and load_trade_history(): the caller keeps the results.
LoadBoth ==
    /\ returned' = [held |-> TRUE,
                    changed |-> returned.held /\ returned.changed,
                    positions |-> deepcopy(state_manager.open_positions),
                    history |-> deepcopy(state_manager.trade_history)]
    /\ last' = [kind |-> "load"]
    /\ UNCHANGED <<network, today, disk, pc, open_positions, trade_history, is_running,
                   starting_balance, simulation_mode, circuit_breaker_triggered,
                   _circuit_breaker_date, state_manager, starts, drawdown_day, sync,
                   strategy_output, users, managers, notebook>>

\* The caller changes what it holds.
CallerMutates ==
    /\ returned.held
    /\ \E m \in Mutations, s \in Symbols :
          /\ returned' = [returned EXCEPT !.changed = TRUE,
                                          !.positions.value = MutatePositions(m, @, s),
                                          !.history.value = MutateHistory(m, @)]
          /\ returned' # returned
          /\ state_manager' = StateAfterMutation(state_manager, m, s, returned)
    /\ last' = [kind |-> "mutate"]
    /\ UNCHANGED <<network, today, disk, pc, open_positions, trade_history, is_running,
                   starting_balance, simulation_mode, circuit_breaker_triggered,
                   _circuit_breaker_date, starts, drawdown_day, sync, strategy_output, users, managers, notebook>>

\* force_save() once the caller holds loaded values.
SaveAfterLoad ==
    /\ returned.held
    /\ state_manager' = force_save(TheStore).state
    /\ disk' = force_save(TheStore).disk
    /\ last' = [kind |-> "force_save"]
    /\ UNCHANGED <<traderVars, pc>>

CopyNext ==
    \/ CopyBuild
    \/ LoadBoth
    \/ CallerMutates
    \/ SaveAfterLoad

CopySpec == CopyInit /\ [][CopyNext]_vars

\* C19: once a caller holds what load_positions and load_trade_history
\* returned, nothing it does to those values changes the manager's state: a
\* later load returns the manager's positions and trades as they were, and a
\* later save writes them to the state file.
C19_LoadsReturnIndependentCopies ==
    [][ returned.held =>
          /\ state_manager' = state_manager
          /\ last'.kind = "mutate" => disk' = disk
          /\ last'.kind = "load" =>
                /\ returned'.positions.value = state_manager.open_positions
                /\ returned'.history.value = state_manager.trade_history
          /\ (last'.kind = "force_save" /\ StateWritable(state_manager)) =>
                disk'.main = StateFile(JsonRoundTrip(state_manager))
      ]_vars

\* C19 witness: the caller changed what it had been handed and loaded again:
\* the new load and the state file hold the position with the size it was
\* saved with, and the trades as the manager has them.
C19_Witness_LoadAfterMutation ==
    /\ last.kind = "load"
    /\ returned.held
    /\ returned.changed
    /\ \E s \in DOMAIN state_manager.open_positions :
          /\ returned.positions.value[s].size = SizeUnit
          /\ disk.main.kind = "state"
          /\ s \in DOMAIN disk.main.data.open_positions
          /\ disk.main.data.open_positions[s].size = SizeUnit
    /\ Len(returned.history.value) = MaxTrades
    /\ disk.main.data.trade_history = state_manager.trade_history

(***************************************************************************)
(* Two processes on one state file: the sections of the StateManager's     *)
(* calls that touch the file or its backups, and the FileLock.             *)
(***************************************************************************)
\* The variables that stay as they are while processes use the file.
fileVars == <<network, today, disk, pc, open_positions, trade_history, is_running,
              starting_balance, simulation_mode, circuit_breaker_triggered,
              _circuit_breaker_date, state_manager, starts, drawdown_day, sync,
              strategy_output, returned, managers, notebook>>

LockInit ==
    /\ NoProcess
    /\ pc = "store"
    /\ disk = NewDisk(backup_count)
    /\ state_manager = EmptyState
    /\ last = NoStep

\* Process p moves to `u`.
Moves(p, u, step) ==
    /\ users' = [users EXCEPT ![p] = u]
    /\ last' = [kind |-> step]
    /\ UNCHANGED fileVars

\* FileLock(...).acquire can succeed: no process holds the lock.
LockFree == \A q \in Procs : ~users[q].locked

\* _save_state is called: `with lock` is reached.
CallSave(p) ==
    /\ users[p] = Idle
    /\ Moves(p, [Idle EXCEPT !.op = "save", !.at = "wait"], "call")

\* _load_or_create_state is called on an existing file.
CallLoad(p) ==
    /\ users[p] = Idle
    /\ Moves(p, [Idle EXCEPT !.op = "load", !.at = "wait"], "call")

\* reset_state(confirm=True) is called: _create_backup() runs at once.
CallReset(p) ==
    /\ users[p] = Idle
    /\ Moves(p, [Idle EXCEPT !.op = "reset", !.at = "backup"], "call")

\* reset_state, after its backup: self.state = TradingState(), _save_state().
ResetSaves(p) ==
    /\ users[p].op = "reset"
    /\ users[p].at = "backup"
    /\ ~users[p].locked
    /\ Moves(p, [users[p] EXCEPT !.at = "wait"], "reset")

\* `with lock:` is entered.  What follows is the backup rotation of a save,
\* the read of a load, or the restore of a recovery.
Acquire(p) ==
    /\ users[p].at = "wait"
    /\ LockFree
    /\ Moves(p, [users[p] EXCEPT !.locked = TRUE,
                                 !.at = IF users[p].op \in {"save", "reset"} THEN "backup"
                                        ELSE IF users[p].op = "load" THEN "read"
                                        ELSE "restore"],
             "acquire")

\* The lock is not had within 10 seconds: Timeout is caught and logged.  A
\* save or a load gives up; a recovery goes on to the next backup.
LockTimeout(p) ==
    /\ users[p].at = "wait"
    /\ ~LockFree
    /\ Moves(p, IF users[p].op = "recover" /\ users[p].backup < backup_count
                THEN [users[p] EXCEPT !.backup = @ + 1]
                ELSE Idle,
             "timeout")

\* _save_state under the lock: _create_backup is done, the file is opened for
\* writing.
BackupDone(p) ==
    /\ users[p].at = "backup"
    /\ users[p].locked
    /\ Moves(p, [users[p] EXCEPT !.at = "write"], "backup")

\* json.dump is done (or has raised): the lock is released.
WriteDone(p) ==
    /\ users[p].at = "write"
    /\ Moves(p, Idle, "write")

\* json.load is done: the lock is released.  A file that does not parse
\* sends the load to _try_recover_from_backup.
ReadDone(p) ==
    /\ users[p].at = "read"
    /\ \E parsed \in BOOLEAN :
          Moves(p, IF parsed THEN Idle
                   ELSE [Idle EXCEPT !.op = "recover", !.at = "wait", !.backup = 1],
                "read")

\* _try_recover_from_backup under the lock: the backup is read and, if it
\* parses, written over the state file; the lock is released.  The load is
\* then made again, or the next backup is tried.
RestoreDone(p) ==
    /\ users[p].at = "restore"
    /\ \E parsed \in BOOLEAN :
          Moves(p, IF parsed THEN [Idle EXCEPT !.op = "load", !.at = "wait"]
                   ELSE IF users[p].backup < backup_count
                   THEN [Idle EXCEPT !.op = "recover", !.at = "wait", !.backup = users[p].backup + 1]
                   ELSE Idle,
                "restore")

LockNext ==
    \E p \in Procs :
        \/ CallSave(p)
        \/ CallLoad(p)
        \/ CallReset(p)
        \/ ResetSaves(p)
        \/ Acquire(p)
        \/ LockTimeout(p)
        \/ BackupDone(p)
        \/ WriteDone(p)
        \/ ReadDone(p)
        \/ RestoreDone(p)

LockSpec == LockInit /\ [][LockNext]_vars

\* Process p is reading or changing the state file or one of its backups.
InFileSection(p) == users[p].at \in {"backup", "write", "read", "restore"}

\* C20: a process that reads or changes the state file or a backup (load,
\* save, backup rotation, recovery, reset) holds the file lock, and no two
\* processes are inside such a section at the same time.
C20_FileSectionsUnderLock ==
    /\ \A p \in Procs : InFileSection(p) => users[p].locked
    /\ \A p, q \in Procs : (p # q /\ InFileSection(p)) => ~InFileSection(q)

(***************************************************************************)
(* A StateManager whose lock may be held by another process for longer     *)
(* than the 10 seconds it waits.                                           *)
(***************************************************************************)
\* _save_state with the answer of the FileLock: with the lock the save is
\* made; Timeout is caught and logged, nothing is written, nothing raised.
_save_state_Locking(st, d, acquired) ==
    [disk |-> IF acquired THEN _save_state(st, d) ELSE d, raised |-> FALSE]

\* _load_or_create_state with the answer of the FileLock (taken only when
\* the file exists): Timeout is caught and logged and the new empty state is
\* returned, the backups untried.
_load_or_create_state_Locking(d, acquired) ==
    IF d.main.kind = "absent" \/ acquired THEN _load_or_create_state(d)
    ELSE [state |-> EmptyState, disk |-> d, raised |-> FALSE]

TimeoutInit == StoreInit

\* save_position while the lock is free or held elsewhere.
LockedSave ==
    \E symbol \in Symbols, position_data \in PositionInputs, acquired \in BOOLEAN :
        LET st == [state_manager EXCEPT !.open_positions =
                       (symbol :> _serialize_position(position_data)) @@ @]
            saved == _save_state_Locking(st, disk, acquired)
        IN  /\ state_manager' = st
            /\ disk' = saved.disk
            /\ last' = [kind |-> "save", acquired |-> acquired, raised |-> saved.raised,
                        found |-> disk]
            /\ UNCHANGED <<traderVars, pc>>

\* The process starts again: StateManager(state_file) while the lock is free
\* or held elsewhere.
LockedLoad ==
    \E acquired \in BOOLEAN :
        LET loaded == _load_or_create_state_Locking(disk, acquired)
        IN  /\ disk.main.kind = "absent" => acquired
            /\ state_manager' = loaded.state
            /\ disk' = loaded.disk
            /\ last' = [kind |-> "load", acquired |-> acquired, raised |-> loaded.raised,
                        found |-> disk]
            /\ UNCHANGED <<traderVars, pc>>

TimeoutNext ==
    \/ LockedSave
    \/ LockedLoad

TimeoutSpec == TimeoutInit /\ [][TimeoutNext]_vars

\* The last call waited for the lock in vain.
TimedOut(call) == last.kind = call /\ ~last.acquired

\* C21: a save or a load that cannot have the lock within the bounded wait
\* raises an error to its caller: the save is not dropped without one, and
\* the load does not return an empty state for a file that holds one.
C21_LockTimeoutSurfaces ==
    /\ TimedOut("save") => last.raised
    /\ TimedOut("load") =>
          \/ last.raised
          \/ last.found.main.kind = "state" => state_manager = last.found.main.data

(***************************************************************************)
(* Two processes, each with its own StateManager on the same state file,   *)
(* each saving positions of its own symbol.  Every load and save is made   *)
(* under the lock, one at a time.                                          *)
(***************************************************************************)
\* The symbol process p writes ("BTC_i" and "ETH_i" in the test).
OwnSymbol(p) == SymbolOrder[p]

\* The position dicts the writers save: plain JSON values of two sizes.
WriterInputs ==
    { [signal |-> NoSignal,
       size |-> n * SizeUnit,
       entry_price |-> VenueEntryPx,
       stop_loss |-> 0,
       take_profit |-> 0,
       timestamp |-> DateTime(0),
       order |-> "json",
       unrealized_pnl |-> 0,
       synced_from_exchange |-> FALSE] : n \in 1..2 }

\* The file as the first manager left it: set_starting_balance(100000) and
\* force_save().
WritersInit ==
    /\ NoProcess
    /\ pc = "store"
    /\ LET first == force_save(set_starting_balance(NewStateManager(NewDisk(backup_count)),
                                                     DefaultAccountValue))
       IN  /\ disk = first.disk
           /\ state_manager = first.state
    /\ last = NoStep

\* The step of a writer: its manager, the file, and what it did.
WriterStep(p, store, step) ==
    /\ managers' = [managers EXCEPT ![p] = [constructed |-> TRUE, state |-> store.state]]
    /\ disk' = store.disk
    /\ last' = [kind |-> step, proc |-> p]
    /\ UNCHANGED <<network, today, pc, open_positions, trade_history, is_running,
                   starting_balance, simulation_mode, circuit_breaker_triggered,
                   _circuit_breaker_date, state_manager, starts, drawdown_day, sync,
                   strategy_output, returned, users, notebook>>

\* manager = StateManager(state_file=state_file)
WriterStarts(p) ==
    /\ ~managers[p].constructed
    /\ WriterStep(p, NewStateManager(disk), "construct")

\* manager.save_position(own symbol, position)
WriterSaves(p) ==
    /\ managers[p].constructed
    /\ \E position_data \in WriterInputs :
          WriterStep(p, save_position([state |-> managers[p].state, disk |-> disk],
                                      OwnSymbol(p), position_data),
                     "save_position")

WritersNext ==
    \E p \in Procs :
        \/ WriterStarts(p)
        \/ WriterSaves(p)

WritersSpec == WritersInit /\ [][WritersNext]_vars

\* Writer p has saved a position of its symbol.
HasSaved(p) == managers[p].constructed /\ OwnSymbol(p) \in DOMAIN managers[p].state.open_positions

\* C22: whenever the writers stop, the state file parses and a fresh load
\* holds the position each writer has saved, as that writer saved it.
C22_ConcurrentWritersKeepAll ==
    /\ disk.main.kind = "state"
    /\ \A p \in Procs :
          HasSaved(p) =>
              /\ OwnSymbol(p) \in DOMAIN PersistedState.open_positions
              /\ PersistedState.open_positions[OwnSymbol(p)] =
                    managers[p].state.open_positions[OwnSymbol(p)]

(***************************************************************************)
(* A StateManager watched over a sequence of saves: the primaries its      *)
(* saves replaced, newest first.                                           *)
(***************************************************************************)
BackupInit ==
    /\ NoProcess
    /\ pc = "store"
    /\ disk = NewDisk(LibraryBackups)
    /\ state_manager = NewStateManager(NewDisk(LibraryBackups)).state
    /\ last = [kind |-> "saved", prior |-> <<>>, saves |-> 0]

\* One saving call; the record keeps the primary it found, if any.
SavingStep(store) ==
    /\ last.saves < MaxSaves
    /\ state_manager' = store.state
    /\ disk' = store.disk
    /\ last' = [kind |-> "saved",
                prior |-> IF disk.main.kind = "absent" THEN last.prior
                          ELSE <<disk.main>> \o last.prior,
                saves |-> last.saves + 1]
    /\ UNCHANGED <<traderVars, pc>>

SavePositionWatched ==
    \E symbol \in Symbols, position_data \in PositionInputs :
        SavingStep(save_position(TheStore, symbol, position_data))

\* remove_position saves when the symbol is held.
RemovePositionWatched ==
    \E symbol \in DOMAIN state_manager.open_positions :
        SavingStep(remove_position(TheStore, symbol))

ForceSaveWatched == SavingStep(force_save(TheStore))

BackupNext ==
    \/ SavePositionWatched
    \/ RemovePositionWatched
    \/ ForceSaveWatched

BackupSpec == BackupInit /\ [][BackupNext]_vars

FoundStates == {TradingState(EmptyMap, <<>>, b) : b \in {SimulatedBalance, DefaultAccountValue}}

\* A file found on disk.
FoundFiles == {AbsentFile, CorruptFile} \cup {StateFile(st) : st \in FoundStates}

RecoverInit ==
    /\ NoProcess
    /\ pc = "down"
    /\ disk \in [main : FoundFiles, bak : [1..LibraryBackups -> FoundFiles]]
    /\ state_manager = EmptyState
    /\ last = NoStep

\* StateManager(state_file): load, recovering from the backups if need be.
Load ==
    /\ pc = "down"
    /\ LET loaded == _load_or_create_state(disk)
       IN  /\ state_manager' = loaded.state
           /\ disk' = loaded.disk
           /\ last' = [kind |-> "load", found |-> disk, raised |-> loaded.raised]
    /\ pc' = "store"
    /\ UNCHANGED traderVars

RecoverNext == Load

RecoverSpec == RecoverInit /\ [][RecoverNext]_vars

\* The last step loaded a corrupt primary.
LoadedCorrupt == last.kind = "load" /\ last.found.main.kind = "corrupt"

\* The backups that parsed among the files that load found.
FoundParsing == {i \in DOMAIN last.found.bak : last.found.bak[i].kind = "state"}

C7_EmptyStateWhenNothingParses ==
    (LoadedCorrupt /\ FoundParsing = {}) =>
        /\ state_manager = TradingState(EmptyMap, <<>>, 0)
        /\ ~last.raised
        /\ pc = "store"

\* C7 witness: a load that found a corrupt primary and only corrupt or
\* missing backups, a corrupt one among them.
C7_Witness_CorruptBackups ==
    /\ LoadedCorrupt
    /\ FoundParsing = {}
    /\ \E i \in DOMAIN last.found.bak : last.found.bak[i].kind = "corrupt"
    /\ state_manager = TradingState(EmptyMap, <<>>, 0)

(***************************************************************************)
(* Constructing a trader from a configuration.                             *)
(***************************************************************************)
\* HyperliquidConfig values; the percentages are in hundredths of a percent
\* (0.1 is 1000), a private key is a string or None.
PrivateKeys == {"None", "", "key", "0xkey"}
PositionPercents == {-100, 500, 1000, 1001}
RiskPercents == {200, 500, 501}
Confidences == {-1, 0, 50, 100, 101}
Configs ==
    [network : Networks,
     private_key : PrivateKeys,
     max_position_percent : PositionPercents,
     base_risk_percent : RiskPercents,
     min_confidence : Confidences]

\* str.startswith('0x').
StartsWith0x(key) == key \in {"0xkey"}

NoException == [raised |-> "none", message |-> ""]
Exception(class, message) == [raised |-> class, message |-> message]

\* A validate() that checks the private key only.
validate_KeyOnly(config) ==
    IF config.private_key \in {"None", ""}
    THEN Exception("ValueError", "private_key is required")
    ELSE IF ~StartsWith0x(config.private_key)
    THEN Exception("ValueError", "private_key must start with '0x'")
    ELSE NoException

\* HyperliquidConfig.validate.
validate(config) ==
    IF config.private_key \in {"None", ""}
    THEN Exception("ValueError", "private_key is required")
    ELSE IF ~StartsWith0x(config.private_key)
    THEN Exception("ValueError", "private_key must start with '0x'")
    ELSE IF config.max_position_percent > MaxPositionPercentLimit
    THEN Exception("ValueError", "max_position_percent too high (>10%)")
    ELSE IF config.base_risk_percent > BaseRiskPercentLimit
    THEN Exception("ValueError", "base_risk_percent too high (>5%)")
    ELSE IF config.min_confidence < 0 \/ config.min_confidence > 100
    THEN Exception("ValueError", "min_confidence must be 0-100")
    ELSE NoException

\* The two trader classes and the network each requires.
TraderClasses == {"TestnetTrader", "HyperliquidTrader"}
RequiredNetwork(class) == IF class = "HyperliquidTrader" THEN "mainnet" ELSE "testnet"

\* What the operator may type at the mainnet prompt.
Typed == {"CONFIRM", "confirm", "CANCEL"}

\* A confirmation gate that lets everything through.
Confirmed_Always(confirm, typed) == TRUE

\* HyperliquidTrader.__init__: `if not confirm:` ... `if confirmation != "CONFIRM"`.
Confirmed(confirm, typed) == confirm \/ typed = "CONFIRM"

\* The statements of a constructor, in the order of the source.
InitSteps(class) ==
    <<"network">>
    \o (IF class = "HyperliquidTrader" THEN <<"confirmation">> ELSE <<>>)
    \o <<"validate", "wallet", "clients", "fetcher", "risk_params", "state_manager",
         "starting_balance", "sync">>

\* What one statement of the constructor raises.
StepRaises(step, class, config, confirm, typed) ==
    CASE step = "network" ->
            IF config.network # RequiredNetwork(class)
            THEN Exception("ValueError", "requires network")
            ELSE NoException
      [] step = "confirmation" ->
            IF ~Confirmed(confirm, typed)
            THEN Exception("RuntimeError", "Mainnet trading not confirmed")
            ELSE NoException
      [] step = "validate" -> validate(config)
      [] OTHER -> NoException

\* The constructor run from statement i on: the statements it reached and
\* the exception that ended it, if any.
RECURSIVE RunInitFrom(_, _, _, _, _)
RunInitFrom(i, class, config, confirm, typed) ==
    LET steps == InitSteps(class)
    IN  IF i > Len(steps) THEN [exception |-> NoException, reached |-> steps]
        ELSE LET e == StepRaises(steps[i], class, config, confirm, typed)
             IN  IF e.raised # "none"
                 THEN [exception |-> e, reached |-> SubSeq(steps, 1, i)]
                 ELSE RunInitFrom(i + 1, class, config, confirm, typed)

RunInit(class, config, confirm, typed) == RunInitFrom(1, class, config, confirm, typed)

Reached(run, step) == \E i \in 1..Len(run.reached) : run.reached[i] = step

ConstructInit ==
    /\ NoProcess
    /\ pc = "down"
    /\ last = NoStep
    /\ state_manager = EmptyState
    /\ disk \in {[NewDisk(backup_count) EXCEPT !.main = f] : f \in FoundFiles}

\* A trader is constructed: TestnetTrader(config, strategy) or
\* HyperliquidTrader(config, strategy, confirm=...).  An exception leaves no
\* trader; otherwise the state file is loaded and the process is up.  One
\* construction is followed.
Construct ==
    /\ pc = "down"
    /\ last = NoStep
    /\ \E class \in TraderClasses, config \in Configs, confirm \in BOOLEAN, typed \in Typed :
         LET run == RunInit(class, config, confirm, typed)
             step == [kind |-> "construct", class |-> class, config |-> config,
                      confirm |-> confirm, typed |-> typed, found |-> disk,
                      exception |-> run.exception, reached |-> run.reached]
         IN  IF ~Reached(run, "state_manager")
             THEN /\ last' = step
                  /\ UNCHANGED <<traderVars, disk, pc, state_manager>>
             ELSE \E account \in AccountAnswers :
                    LET before == Constructed(config.network, disk, account, today)
                    IN  \E venue \in IF before.simulation_mode
                                     THEN {CHOOSE v \in VenueAnswers : v.raised}
                                     ELSE VenueAnswers :
                           /\ Commit(_sync_positions_with_exchange(before, venue, today))
                           /\ sync' = SyncOutcome(before, venue)
                           /\ network' = config.network
                           /\ starts' = starts + 1
                           /\ pc' = "idle"
                           /\ last' = step
                           /\ UNCHANGED <<today, drawdown_day, strategy_output, returned,
                                          users, managers, notebook>>

ConstructNext == Construct

ConstructSpec == ConstructInit /\ [][ConstructNext]_vars

\* The last step constructed a trader of this class.
ConstructedA(class) == last.kind = "construct" /\ last.class = class

\* The constructor got as far as the wallet, the venue clients or the state file.
ReachedInitialisation ==
    \E i \in 1..Len(last.reached) : last.reached[i] \in {"wallet", "clients", "state_manager"}

\* C24: constructing the mainnet HyperliquidTrader reaches the wallet, the
\* venue clients or the state file only with config.network = 'mainnet' and
\* confirm=True or the operator's answer 'CONFIRM'; a wrong network raises
\* ValueError, a missing confirmation RuntimeError, and in both cases the
\* state file and its backups are as they were found and no process is up.
C24_MainnetGate ==
    ConstructedA("HyperliquidTrader") =>
        /\ ReachedInitialisation =>
              /\ last.config.network = "mainnet"
              /\ (last.confirm \/ last.typed = "CONFIRM")
        /\ last.config.network # "mainnet" =>
              /\ last.exception.raised = "ValueError"
              /\ ~ReachedInitialisation
              /\ disk = last.found /\ pc = "down"
        /\ (last.config.network = "mainnet" /\ ~last.confirm /\ last.typed # "CONFIRM") =>
              /\ last.exception.raised = "RuntimeError"
              /\ ~ReachedInitialisation
              /\ disk = last.found /\ pc = "down"

\* C24 witness: the operator typed 'CONFIRM' without the confirm flag and
\* the mainnet trader is up on a state file it wrote.
C24_Witness_TypedConfirm ==
    /\ ConstructedA("HyperliquidTrader")
    /\ ~last.confirm /\ last.typed = "CONFIRM"
    /\ ReachedInitialisation
    /\ pc = "idle" /\ network = "mainnet"
    /\ disk # last.found


\* A configuration value the validation names: no private key or one
\* without the '0x' prefix, max_position_percent above 10%,
\* base_risk_percent above 5%, min_confidence outside 0-100.
OutOfRange(config) ==
    \/ config.private_key \in {"None", ""}
    \/ config.private_key \notin {"0xkey"}
    \/ config.max_position_percent > 1000
    \/ config.base_risk_percent > 500
    \/ config.min_confidence \notin 0..100

\* The constructor's checks before validate() passed.
PassedGate ==
    /\ last.config.network = RequiredNetwork(last.class)
    /\ last.class = "HyperliquidTrader" => (last.confirm \/ last.typed = "CONFIRM")

\* Position of a statement among those the constructor reached, 0 if not reached.
ReachedAt(step) ==
    IF \E i \in 1..Len(last.reached) : last.reached[i] = step
    THEN CHOOSE i \in 1..Len(last.reached) : last.reached[i] = step
    ELSE 0

\* C25: validate() raises ValueError exactly for a configuration with a value
\* out of range; both constructors call it after the network check and before
\* the wallet, the venue clients and the state file, so a configuration out
\* of range ends the constructor with ValueError, the files as found and no
\* process up, and a trader that is up has every value in range.
C25_ValidatedBeforeInitialisation ==
    last.kind = "construct" =>
        /\ validate(last.config).raised = "ValueError" <=> OutOfRange(last.config)
        /\ ~OutOfRange(last.config) => validate(last.config) = NoException
        /\ ReachedAt("validate") > 0 => ReachedAt("network") \in 1..(ReachedAt("validate") - 1)
        /\ ReachedInitialisation =>
              /\ ReachedAt("validate") > 0
              /\ \A s \in {"wallet", "clients", "state_manager"} :
                    ReachedAt(s) > ReachedAt("validate")
        /\ (PassedGate /\ OutOfRange(last.config)) =>
              /\ last.exception.raised = "ValueError"
              /\ ReachedAt("validate") = Len(last.reached)
              /\ disk = last.found /\ pc = "down"
        /\ pc = "idle" => ~OutOfRange(last.config)

\* C25 witness: a testnet configuration whose only fault is a
\* max_position_percent above 10% ended the constructor in validate().
C25_Witness_PositionPercentRejected ==
    /\ ConstructedA("TestnetTrader")
    /\ last.config.network = "testnet"
    /\ last.config.private_key = "0xkey"
    /\ last.config.max_position_percent = 1001
    /\ last.config.base_risk_percent = 200
    /\ last.config.min_confidence = 50
    /\ last.exception = Exception("ValueError", "max_position_percent too high (>10%)")
    /\ disk = last.found /\ pc = "down"


(***************************************************************************)
(* The life of a trade record.                                             *)
(***************************************************************************)
\* The record `old` closed at `price` for the position `position`: exit
\* price, P&L by the record's direction, a close reason and the close time.
ClosedRecord(old, new, position, price) ==
    /\ old.status = "OPEN"
    /\ new.status = "CLOSED"
    /\ new.exit_price = price
    /\ new.pnl = IF old.direction = "LONG"
                 THEN (price - position.entry_price) * position.size
                 ELSE (position.entry_price - price) * position.size
    /\ new.close_reason \in {"STOP_LOSS", "TAKE_PROFIT"}
    /\ \A f \in {"timestamp", "symbol", "direction", "size", "entry_price",
                 "stop_loss", "confidence"} : new[f] = old[f]

\* C26: on every tick the trade history keeps its records in place and only
\* grows at the end; a record changes only by being closed, once, and only
\* when it is the newest open record of a symbol whose position the tick
\* closed: it then carries the exit price, the P&L of its direction
\* ((exit - entry) x size long, (entry - exit) x size short) and the close
\* reason; closed records and records of other symbols are left as they were.
C26_TradeClosedOnce ==
    [][ last'.kind = "tick" =>
          /\ Len(trade_history') >= Len(trade_history)
          /\ \A i \in 1..Len(trade_history) :
                LET old == trade_history[i]
                    new == trade_history'[i]
                IN  \/ new = old
                    \/ /\ old.symbol \in DOMAIN open_positions
                       /\ old.symbol \in DOMAIN last'.prices
                       /\ i = NewestOpenTrade(trade_history, old.symbol)
                       /\ ClosedRecord(old, new, open_positions[old.symbol],
                                       last'.prices[old.symbol])
      ]_vars


(***************************************************************************)
(* What an entry order leaves in memory and on disk.                       *)
(***************************************************************************)
\* The state a fresh StateManager loads from the files the step leaves.
PersistedAfter == NewStateManager(disk').state

\* The step recorded a position on default_symbol and appended its open
\* trade record.
EntryRecorded ==
    /\ default_symbol \in DOMAIN open_positions'
    /\ DOMAIN open_positions' = DOMAIN open_positions \cup {default_symbol}
    /\ \A s \in DOMAIN open_positions : open_positions'[s] = open_positions[s]
    /\ Len(trade_history') = Len(trade_history) + 1
    /\ SubSeq(trade_history', 1, Len(trade_history)) = trade_history
    /\ trade_history'[Len(trade_history')].status = "OPEN"
    /\ trade_history'[Len(trade_history')].symbol = default_symbol
    /\ trade_history'[Len(trade_history')].entry_price = open_positions'[default_symbol].entry_price

\* The position and the trade the step recorded are in the state file.
EntryPersisted ==
    /\ default_symbol \in DOMAIN PersistedAfter.open_positions
    /\ PersistedAfter.open_positions[default_symbol]
         = JsonRoundTrip(TradingState((default_symbol :>
              _serialize_position(open_positions'[default_symbol])), <<>>, 0)).open_positions[default_symbol]
    /\ Len(PersistedAfter.trade_history) = Len(PersistedState.trade_history) + 1
    /\ PersistedAfter.trade_history[Len(PersistedAfter.trade_history)]
         = _serialize_trade(trade_history'[Len(trade_history')])

QuotedSymbols == {"BTC", "ETH", "SOL", "DOGE", "XRP", "OP", "ADA"}

\* Digits after the decimal point that _round_to_tick_size keeps:
\* tick_size >= 1 rounds to an integer, otherwise
\* len(str(tick_size).split('.')[-1]) digits ('0.1' -> 1, '0.01' -> 2,
\* '0.001' -> 3, '0.0001' -> 4, '1e-05' -> 5); 0.01 for an unlisted symbol.
Precision(symbol) ==
    CASE symbol = "BTC" -> 0
      [] symbol = "ETH" -> 1
      [] symbol \in {"SOL", "AVAX", "LINK"} -> 2
      [] symbol = "OP" -> 3
      [] symbol \in {"XRP", "MATIC", "ARB"} -> 4
      [] symbol = "DOGE" -> 5
      [] OTHER -> 2

RECURSIVE Pow10(_)
Pow10(k) == IF k = 0 THEN 1 ELSE 10 * Pow10(k - 1)

\* _round_to_tick_size on a price given in 10^-7 dollars: the price rounded
\* to the symbol's digits, in 10^-7 dollars again.
_round_to_tick_size(symbol, price) ==
    LET tick == Pow10(PriceDigits - Precision(symbol))
    IN  RoundDiv(price, tick) * tick

\* _place_order's limit price for a market price given in 10^-4 dollars:
\* current_price * (1 -/+ offset), then _round_to_tick_size; in 10^-7 dollars.
LimitPriceOf(symbol, is_buy, current_price) ==
    IF is_buy THEN _round_to_tick_size(symbol, current_price * (1000 - OffsetPerMille))
    ELSE _round_to_tick_size(symbol, current_price * (1000 + OffsetPerMille))

\* An entry order about to be priced: the symbol, the side and the market
\* price fetcher.get_current_price returned (positive, in 10^-4 dollars).
QuoteInit ==
    /\ NoProcess
    /\ pc = "order"
    /\ disk = NewDisk(backup_count)
    /\ state_manager = EmptyState
    /\ \E symbol \in QuotedSymbols, is_buy \in BOOLEAN, price \in 1..MaxQuote :
         last = [kind |-> "quote", symbol |-> symbol, is_buy |-> is_buy,
                 current_price |-> price, limit_price |-> 0]

\* _place_order computes the limit price it submits.
PriceOrder ==
    /\ last.kind = "quote"
    /\ last' = [last EXCEPT !.kind = "priced",
                            !.limit_price = LimitPriceOf(last.symbol, last.is_buy,
                                                         last.current_price)]
    /\ UNCHANGED <<traderVars, pc, disk, state_manager>>

QuoteNext == PriceOrder

QuoteSpec == QuoteInit /\ [][QuoteNext]_vars

\* C28: the limit price submitted is never above the market price for a buy
\* and never below it for a sell, for every symbol and every positive
\* market price.
C28_LimitOnFavourableSide ==
    last.kind = "priced" =>
        IF last.is_buy THEN last.limit_price <= last.current_price * 1000
        ELSE last.limit_price >= last.current_price * 1000


(***************************************************************************)
(* The signal a strategy builds from a pattern candidate.                  *)
(***************************************************************************)
\* Prices of the candles a candidate is built from.
CandlePrices == 96..104
\* Distance the stop is placed beyond the pattern's extreme.
StopBuffers == {1, 2}
\* The fixed risk:reward multiples of the fallback target.
RewardMultiples == {2, 3}
\* min_rr_ratio of the strategy.
MinRewardRatios == {1, 2, 3}
\* Prior swing levels the target may be taken from.
SwingLevels == {95, 99, 101, 105}

\* A pattern candidate at one index: the side, the close (the entry), the
\* extreme of the pattern (the swept low of a long, the swept high of a
\* short) and the swing levels found before it.
Candidates ==
    [direction : {1, -1}, close : {99, 100, 101}, extreme : CandlePrices,
     buffer : StopBuffers, levels : SUBSET SwingLevels,
     multiple : RewardMultiples, min_rr_ratio : MinRewardRatios]

NoCandidate == CHOOSE c \in Candidates : TRUE

\* No signal: what a constructor returns for a candidate it drops.
None == [emitted |-> FALSE, direction |-> 0, entry_price |-> 0, stop_loss |-> 0,
         take_profit |-> 0]

\* The stop of a candidate: beyond the extreme of its pattern.
ConstructedStop(c) ==
    IF c.direction = 1 THEN c.extreme - c.buffer ELSE c.extreme + c.buffer

\* A stop check that lets every candidate through.
StopOnLosingSide_Unchecked(c) == TRUE

\* The stop is on the losing side of the entry: below it for a long, above
\* it for a short.
StopOnLosingSide(c) ==
    IF c.direction = 1 THEN ConstructedStop(c) < c.close ELSE ConstructedStop(c) > c.close

\* The swing levels a target may be taken from: prior opposite-side levels
\* beyond the entry.
QualifyingLevels(c) ==
    {l \in c.levels : IF c.direction = 1 THEN l > c.close ELSE l < c.close}

\* The target: the nearest qualifying swing level, or the fixed multiple of
\* the risk when there is none.
ConstructedTarget(c) ==
    LET levels == QualifyingLevels(c)
        risk == Abs(c.close - ConstructedStop(c))
    IN  IF levels # {}
        THEN CHOOSE l \in levels : \A m \in levels : Abs(m - c.close) >= Abs(l - c.close)
        ELSE c.close + c.direction * c.multiple * risk

\* A floor read as a ceiling.
MeetsRewardRatio_Ceiling(c) ==
    Abs(ConstructedTarget(c) - c.close) <= c.min_rr_ratio * Abs(c.close - ConstructedStop(c))

\* risk/reward >= min_rr_ratio.
MeetsRewardRatio(c) ==
    Abs(ConstructedTarget(c) - c.close) >= c.min_rr_ratio * Abs(c.close - ConstructedStop(c))

\* _create_long_signal / _create_short_signal: None for a stop on the wrong
\* side or a reward below the floor, otherwise the Signal.
_create_signal(c) ==
    IF ~StopOnLosingSide(c) THEN None
    ELSE IF ~MeetsRewardRatio(c) THEN None
    ELSE [emitted |-> TRUE, direction |-> c.direction, entry_price |-> c.close,
          stop_loss |-> ConstructedStop(c), take_profit |-> ConstructedTarget(c)]

\* A strategy walking the series has found a candidate.
SignalInit ==
    /\ NoProcess
    /\ pc = "scan"
    /\ disk = NewDisk(backup_count)
    /\ state_manager = EmptyState
    /\ \E c \in Candidates :
         last = [kind |-> "candidate", candidate |-> c, signal |-> None, raised |-> FALSE]

\* The candidate is turned into a signal, or dropped.
CreateSignal ==
    /\ last.kind = "candidate"
    /\ last' = [last EXCEPT !.kind = "evaluated", !.signal = _create_signal(last.candidate)]
    /\ UNCHANGED <<traderVars, pc, disk, state_manager>>

SignalNext == CreateSignal

SignalSpec == SignalInit /\ [][SignalNext]_vars

\* C29: an emitted signal has stop_loss < entry_price < take_profit when
\* long and take_profit < entry_price < stop_loss when short; a candidate
\* whose constructed stop is on the wrong side of the entry gives no signal
\* and no error.
C29_SignalOrdering ==
    last.kind = "evaluated" =>
        LET s == last.signal
            c == last.candidate
            placed == IF c.direction = 1 THEN c.extreme - c.buffer ELSE c.extreme + c.buffer
        IN  /\ (s.emitted /\ s.direction = 1) =>
                  s.stop_loss < s.entry_price /\ s.entry_price < s.take_profit
            /\ (s.emitted /\ s.direction = -1) =>
                  s.take_profit < s.entry_price /\ s.entry_price < s.stop_loss
            /\ s.emitted => s.direction = c.direction /\ s.entry_price = c.close
            /\ (c.direction = 1 /\ placed >= c.close) => ~s.emitted /\ ~last.raised
            /\ (c.direction = -1 /\ placed <= c.close) => ~s.emitted /\ ~last.raised

\* C29 witness: a short candidate whose stop would lie at or below its
\* close, with swing levels at hand, was dropped.
C29_Witness_WrongSideDropped ==
    /\ last.kind = "evaluated"
    /\ last.candidate.direction = -1
    /\ last.candidate.extreme + last.candidate.buffer <= last.candidate.close
    /\ last.candidate.levels # {}
    /\ ~last.signal.emitted


(***************************************************************************)
(* The position sizer.                                                     *)
(***************************************************************************)
\* RiskParameters as the traders build them from a validated configuration
\* (percentages in hundredths of a percent).
RiskParameterSets ==
    [base_risk_percent : {200, 500}, max_position_percent : {500, 1000},
     min_confidence : {0, 50}]

\* Arguments of calculate_position_size: dollars, stop_distance for
\* |entry_price - stop_loss_price|, ATR in dollars, streak lengths as the
\* trader counts them.
SizerInputs ==
    [portfolio_value : {10000, 100000},
     entry_price : {100, 2000},
     stop_distance : {1, 50},
     confidence_score : {0, 49, 50, 100},
     current_atr : {1, 3},
     baseline_atr : {1, 2},
     consecutive_wins : {0, 3},
     consecutive_losses : {0, 3},
     params : RiskParameterSets]

\* The streak adjustment in percent: smaller after consecutive losses.
StreakPercent(wins, losses) ==
    IF losses >= 3 THEN 50 ELSE IF losses > 0 THEN 75 ELSE 100

\* Base risk amount: portfolio_value x base_risk_percent, scaled down by
\* baseline_atr / current_atr when volatility is above its baseline, and by
\* the streak adjustment.
RiskAmount(a) ==
    LET base == (a.portfolio_value * a.params.base_risk_percent) \div 10000
        calm == IF a.current_atr > a.baseline_atr
                THEN (base * a.baseline_atr) \div a.current_atr
                ELSE base
    IN  (calm * StreakPercent(a.consecutive_wins, a.consecutive_losses)) \div 100

\* The size whose notional is portfolio_value x max_position_percent, in
\* 1/SizeUnit units.
PositionCap(a) ==
    (((a.portfolio_value * a.params.max_position_percent) \div 10000) * SizeUnit)
        \div a.entry_price

\* A sizer without the position cap.
calculate_position_size_Uncapped(a) ==
    IF a.confidence_score < a.params.min_confidence THEN 0
    ELSE (RiskAmount(a) * SizeUnit) \div a.stop_distance

\* calculate_position_size: 0 below min_confidence, otherwise the smaller of
\* risk amount / |entry - stop| and the position cap; in 1/SizeUnit units.
calculate_position_size(a) ==
    IF a.confidence_score < a.params.min_confidence THEN 0
    ELSE LET by_risk == (RiskAmount(a) * SizeUnit) \div a.stop_distance
             cap == PositionCap(a)
         IN  IF by_risk < cap THEN by_risk ELSE cap

\* The sizer is about to be called.
SizerInit ==
    /\ NoProcess
    /\ pc = "size"
    /\ disk = NewDisk(backup_count)
    /\ state_manager = EmptyState
    /\ \E a \in SizerInputs : last = [kind |-> "sizing", args |-> a, size |-> 0]

\* position_size = calculate_position_size(...)
SizePosition ==
    /\ last.kind = "sizing"
    /\ last' = [last EXCEPT !.kind = "sized", !.size = calculate_position_size(last.args)]
    /\ UNCHANGED <<traderVars, pc, disk, state_manager>>

SizerNext == SizePosition

SizerSpec == SizerInit /\ [][SizerNext]_vars

\* C30: the size is exactly 0 when confidence_score < min_confidence, is
\* never negative, and its notional size x entry_price never exceeds
\* portfolio_value x max_position_percent, whatever the confidence, the
\* volatility ratio and the streaks.  (size x entry <= cap is stated as
\* size <= cap / entry, rounded down, which is the same for whole sizes.)
C30_SizeWithinCap ==
    last.kind = "sized" =>
        LET a == last.args
        IN  /\ a.confidence_score < a.params.min_confidence => last.size = 0
            /\ last.size >= 0
            /\ last.size <= (((a.portfolio_value * a.params.max_position_percent) \div 10000)
                                * SizeUnit) \div a.entry_price

\* C30 witness: at full confidence, with calm volatility and no losing
\* streak, the risk-based size is above the cap and the cap is returned.
C30_Witness_CapBinds ==
    /\ last.kind = "sized"
    /\ last.args.confidence_score = 100
    /\ last.args.current_atr <= last.args.baseline_atr
    /\ last.args.consecutive_losses = 0
    /\ last.size > 0
    /\ last.size = PositionCap(last.args)
    /\ (RiskAmount(last.args) * SizeUnit) \div last.args.stop_distance > last.size


(***************************************************************************)
(* The confidence score.                                                   *)
(***************************************************************************)
\* ConfidenceFactors: the factor flags and the confluence count (an int,
\* whatever the caller stored in it).
FactorFlags ==
    {"htf_trend_aligned", "htf_structure_clean", "pattern_clean", "volume_spike",
     "volume_divergence", "trending_market", "low_volatility"}
ConfluenceCounts == -2..6
ConfidenceFactors == [flags : SUBSET FactorFlags, multiple_confluences : ConfluenceCounts]

\* The weight of a factor flag.
FactorWeight(flag) ==
    IF flag \in {"htf_trend_aligned", "htf_structure_clean"} THEN 15 ELSE 10

RECURSIVE FlagPoints(_)
FlagPoints(flags) ==
    IF flags = {} THEN 0
    ELSE LET f == CHOOSE f \in flags : TRUE
         IN  FactorWeight(f) + FlagPoints(flags \ {f})

\* +5 per confluence, capped at +20.
ConfluencePoints(count) == IF 5 * count > 20 THEN 20 ELSE 5 * count

\* A score left as the weighted sum.
ClampScore_None(total) == total

\* Cap the total at 100, floor it at 0.
ClampScore(total) == IF total > 100 THEN 100 ELSE IF total < 0 THEN 0 ELSE total

\* ConfidenceFactors.calculate_score
calculate_score(factors) ==
    ClampScore(FlagPoints(factors.flags) + ConfluencePoints(factors.multiple_confluences))

\* A strategy has filled in the factors of a candidate.
ScoreInit ==
    /\ NoProcess
    /\ pc = "score"
    /\ disk = NewDisk(backup_count)
    /\ state_manager = EmptyState
    /\ \E f \in ConfidenceFactors : last = [kind |-> "factors", factors |-> f, confidence |-> 0]

\* calculate_confidence: the score becomes the signal's confidence.
ScoreCandidate ==
    /\ last.kind = "factors"
    /\ last' = [last EXCEPT !.kind = "scored", !.confidence = calculate_score(last.factors)]
    /\ UNCHANGED <<traderVars, pc, disk, state_manager>>

ScoreNext == ScoreCandidate

ScoreSpec == ScoreInit /\ [][ScoreNext]_vars

AlertSystem(n) == [alerts |-> <<>>, stream |-> "none", max_history |-> n]

\* Confidences setup_detected is called with.
SetupConfidences == {60, 75, 90}

\* The level setup_detected gives a setup of this confidence.
AlertLevel(confidence) ==
    IF confidence >= 85 THEN "CRITICAL" ELSE IF confidence >= 70 THEN "HIGH" ELSE "SETUP"

\* A history that drops the alert just added when it is full.
_trigger_alert_EvictNewest(a, alert) ==
    LET added == Append(a.alerts, alert)
    IN  [a EXCEPT !.alerts = IF Len(added) > a.max_history
                             THEN SubSeq(added, 1, Len(added) - 1) ELSE added]

\* AlertSystem._trigger_alert: append, then pop(0) when the history is
\* longer than max_history.  (Display, sound and callbacks read the alert;
\* a callback's exception is caught.)
_trigger_alert(a, alert) ==
    LET added == Append(a.alerts, alert)
    IN  [a EXCEPT !.alerts = IF Len(added) > a.max_history
                             THEN Tail(added) ELSE added]

AlertInit ==
    /\ NoTradingProcess
    /\ pc = "notebook"
    /\ disk = NewDisk(backup_count)
    /\ state_manager = EmptyState
    /\ \E n \in 0..MaxHistory : notebook = AlertSystem(n)
    /\ last = [kind |-> "alerts", triggered |-> <<>>, calls |-> 0]

\* One call of the alert system: the alert it triggered, if any, is noted.
AlertStep(after, alert, triggered) ==
    /\ last.calls < MaxAlerts
    /\ notebook' = after
    /\ last' = [kind |-> "alerts",
                triggered |-> IF triggered THEN Append(last.triggered, alert) ELSE last.triggered,
                calls |-> last.calls + 1]
    /\ UNCHANGED <<tradingVars, pc, disk, state_manager>>

\* AlertSystem.info
Info ==
    LET alert == [title |-> last.calls, level |-> "INFO"]
    IN  AlertStep(_trigger_alert(notebook, alert), alert, TRUE)

\* AlertSystem.setup_detected: a setup below min_confidence is ignored.
SetupDetected ==
    \E confidence \in SetupConfidences :
        LET alert == [title |-> last.calls, level |-> AlertLevel(confidence)]
        IN  IF confidence < AlertMinConfidence
            THEN AlertStep(notebook, alert, FALSE)
            ELSE AlertStep(_trigger_alert(notebook, alert), alert, TRUE)

AlertNext == Info \/ SetupDetected

AlertSpec == AlertInit /\ [][AlertNext]_vars

\* C33: the history holds at most max_history alerts, and they are the most
\* recently triggered ones in order of arrival.
C33_HistoryKeepsNewest ==
    LET kept == Len(notebook.alerts)
        all == Len(last.triggered)
    IN  /\ kept <= notebook.max_history
        /\ kept = IF all < notebook.max_history THEN all ELSE notebook.max_history
        /\ \A i \in 1..kept : notebook.alerts[i] = last.triggered[all - kept + i]

\* C33 witness: more alerts were triggered than the history holds, and the
\* history starts at the oldest alert not evicted.
C33_Witness_OldestEvicted ==
    /\ notebook.max_history = MaxHistory
    /\ Len(last.triggered) > MaxHistory + 1
    /\ Len(notebook.alerts) = MaxHistory
    /\ notebook.alerts[1] = last.triggered[Len(last.triggered) - MaxHistory + 1]
    /\ notebook.alerts[1] # last.triggered[1]


(***************************************************************************)
(* The background thread of a LiveDataStream.                              *)
(***************************************************************************)
\* LiveDataStream.__init__: no thread, the stop event clear, no data.
LiveDataStream ==
    [thread |-> "none", stop_event |-> FALSE, update_count |-> 0,
     error_count |-> 0, data |-> "none", starts |-> 0]

\* Thread.is_alive()
is_alive(stream) == stream.thread \notin {"none", "done"}

\* What a fetch of the timeframes leaves in self.data: new candles, or the
\* old data when the fetcher raised (the failure is logged).
FetchOutcomes(stream) == {"fresh", stream.data}

\* How the callbacks of one cycle end: all returned, one raised (logged), or
\* one raised and has no __name__ for the log line, so that the handler
\* itself raises out of _notify_callbacks.
CallbackOutcomes == {"returned", "raised", "raised_unnamed"}

\* A loop that does not look at the stop event.
LoopContinues_Always(stream) == TRUE

\* while not self._stop_event.is_set()
LoopContinues(stream) == ~stream.stop_event

StreamInit ==
    /\ NoTradingProcess
    /\ pc = "notebook"
    /\ disk = NewDisk(backup_count)
    /\ state_manager = EmptyState
    /\ notebook = [alerts |-> <<>>, stream |-> LiveDataStream]
    /\ last = [kind |-> "stream", op |-> "init"]

StreamStep(stream, op) ==
    /\ notebook' = [notebook EXCEPT !.stream = stream]
    /\ last' = [kind |-> "stream", op |-> op]
    /\ UNCHANGED <<tradingVars, pc, disk, state_manager>>

\* LiveDataStream.start: the initial fetch, then a new thread with the stop
\* event cleared; a running stream is left alone.
StreamStart ==
    LET s == notebook.stream
    IN  /\ s.starts < MaxStreamStarts
        /\ IF is_alive(s)
           THEN StreamStep([s EXCEPT !.starts = @ + 1], "start_ignored")
           ELSE \E fetched \in FetchOutcomes(s) :
                    StreamStep([s EXCEPT !.data = fetched, !.stop_event = FALSE,
                                         !.thread = "check", !.starts = @ + 1], "start")

\* LiveDataStream.stop: sets the stop event of a running stream and joins
\* the thread for at most five seconds.
StreamStop ==
    LET s == notebook.stream
    IN  /\ last.op # "stop_ignored"
        /\ IF is_alive(s)
           THEN StreamStep([s EXCEPT !.stop_event = TRUE], "stop")
           ELSE StreamStep(s, "stop_ignored")

\* _update_loop, the loop condition: a cycle begins or the thread ends.
LoopCheck ==
    LET s == notebook.stream
    IN  /\ s.thread = "check"
        /\ IF LoopContinues(s)
           THEN /\ s.update_count + s.error_count < MaxCycles
                /\ StreamStep([s EXCEPT !.thread = "fetch"], "cycle")
           ELSE StreamStep([s EXCEPT !.thread = "done"], "ended")

\* _fetch_all_timeframes inside the loop.
FetchAllTimeframes ==
    LET s == notebook.stream
    IN  /\ s.thread = "fetch"
        /\ \E fetched \in FetchOutcomes(s) :
               StreamStep([s EXCEPT !.data = fetched, !.thread = "notify"],
                          IF fetched = "fresh" THEN "fetched" ELSE "fetch_failed")

\* _notify_callbacks and the count of the cycle: update_count, or error_count
\* when an exception reached the loop's handler.
NotifyCallbacks ==
    LET s == notebook.stream
    IN  /\ s.thread = "notify"
        /\ \E outcome \in CallbackOutcomes :
               IF outcome = "raised_unnamed"
               THEN StreamStep([s EXCEPT !.error_count = @ + 1, !.thread = "wait"], outcome)
               ELSE StreamStep([s EXCEPT !.update_count = @ + 1, !.thread = "wait"], outcome)

\* self._stop_event.wait(self.update_interval): returns when the event is set
\* or the interval has passed.
LoopWait ==
    LET s == notebook.stream
    IN  /\ s.thread = "wait"
        /\ StreamStep([s EXCEPT !.thread = "check"], "waited")

_update_loop == LoopCheck \/ FetchAllTimeframes \/ NotifyCallbacks \/ LoopWait

StreamNext == StreamStart \/ StreamStop \/ _update_loop

\* The thread is a daemon thread of the interpreter: it keeps being
\* scheduled, and the calls it makes return.
StreamSpec == StreamInit /\ [][StreamNext]_vars /\ WF_vars(_update_loop)

NoCycleAfterStop ==
    [][notebook.stream.stop_event
       => ~(notebook.stream.thread = "check" /\ notebook'.stream.thread = "fetch")]_vars

ThreadEndsAfterStop ==
    (notebook.stream.stop_event /\ is_alive(notebook.stream))
        ~> (notebook.stream.thread = "done")

LoopEndsOnlyOnStop ==
    [][(notebook.stream.thread # "done" /\ notebook'.stream.thread = "done")
       => notebook.stream.stop_event]_vars

\* C34: once stop() has set the stop event of a running stream the loop
\* begins no further cycle and its thread ends; the thread ends for no other
\* reason, whatever the fetches and callbacks of its cycles did.
C34_StopEndsLoop == NoCycleAfterStop /\ ThreadEndsAfterStop /\ LoopEndsOnlyOnStop

\* C34 witness: a loop that went through a failed cycle and a completed one
\* has ended after stop().
C34_Witness_StoppedAfterErrors ==
    /\ notebook.stream.thread = "done"
    /\ notebook.stream.stop_event
    /\ notebook.stream.error_count > 0
    /\ notebook.stream.update_count > 0


(***************************************************************************)
(* One candle series under two settings of min_rr_ratio.                   *)
(***************************************************************************)
\* The candidates a strategy finds while walking one series.
SeriesCandidates ==
    {c \in Candidates : /\ c.close = 100
                        /\ c.extreme \in {98, 99, 101, 102}
                        /\ c.buffer = 1
                        /\ c.levels \in {{}, {101}, {99, 105}}
                        /\ c.min_rr_ratio = 1}

CandleSeries ==
    {<<>>} \cup UNION {[1..n -> SeriesCandidates] : n \in 1..MaxSeries}

\* generate_signals of a strategy configured with min_rr_ratio: the signals
\* of the candidates of the series, each with the index it was found at.
generate_signals(series, min_rr_ratio) ==
    {s \in {[index |-> i,
             signal |-> _create_signal([series[i] EXCEPT !.min_rr_ratio = min_rr_ratio])] :
            i \in 1..Len(series)} : s.signal.emitted}

RatioInit ==
    /\ NoProcess
    /\ pc = "scan"
    /\ disk = NewDisk(backup_count)
    /\ state_manager = EmptyState
    /\ \E series \in CandleSeries, lenient, strict \in MinRewardRatios :
         /\ lenient <= strict
         /\ last = [kind |-> "series", series |-> series, lenient |-> lenient,
                    strict |-> strict, signals_lenient |-> {}, signals_strict |-> {}]

\* Two strategies that differ in min_rr_ratio only are run on the series.
GenerateSignals ==
    /\ last.kind = "series"
    /\ last' = [last EXCEPT !.kind = "generated",
                            !.signals_lenient = generate_signals(last.series, last.lenient),
                            !.signals_strict = generate_signals(last.series, last.strict)]
    /\ UNCHANGED <<traderVars, pc, disk, state_manager>>

RatioNext == GenerateSignals

RatioSpec == RatioInit /\ [][RatioNext]_vars

\* C32: on the same series the signals emitted under a higher min_rr_ratio
\* are among those emitted under a lower one, so that there are no more of
\* them.
C32_RatioMonotonic ==
    last.kind = "generated" =>
        /\ last.signals_strict \subseteq last.signals_lenient
        /\ Cardinality(last.signals_strict) <= Cardinality(last.signals_lenient)

\* C32 witness: the higher ratio dropped a signal of the series and kept
\* another.
C32_Witness_StricterDropsOne ==
    /\ last.kind = "generated"
    /\ last.signals_strict # {}
    /\ last.signals_strict # last.signals_lenient


(***************************************************************************)
(* The simulated portfolio value.                                          *)
(***************************************************************************)
\* The P&L of the closed trades of the history, whatever the case their
\* status is written in.
RealizedPnL(t) ==
    LET real == [i \in 1..Len(t.trade_history) |->
                    IF t.trade_history[i].status \in {"closed", "CLOSED"}
                    THEN t.trade_history[i].pnl ELSE 0]
    IN  SumOver(real, DOMAIN real)

UnrealizedPnL(t) ==
    LET unreal == [s \in DOMAIN t.open_positions |-> t.open_positions[s].unrealized_pnl]
    IN  SumOver(unreal, DOMAIN unreal)

\* C35: in simulation mode the portfolio value is max(0, starting balance +
\* unrealized P&L of the open positions + realized P&L of the closed
\* trades), so that the loss of a trade the trader closed lowers the value
\* the drawdown breaker compares with the starting balance.
C35_SimulatedValueCountsClosedTrades ==
    simulation_mode =>
        LET value == starting_balance * SizeUnit + UnrealizedPnL(Self) + RealizedPnL(Self)
        IN  _get_simulated_portfolio_value(Self) = IF value < 0 THEN 0 ELSE value


(***************************************************************************)
(* A close order the venue did not take.                                   *)
(***************************************************************************)
\* C36: outside simulation mode a tick whose close order failed removes no
\* position from the open set: the position stays tracked and is checked
\* again on a later tick.
C36_FailedCloseKeepsPosition ==
    [][ (last'.kind = "tick" /\ ~simulation_mode /\ last'.raised.call = "close") =>
          \A s \in DOMAIN open_positions : s \in DOMAIN open_positions'
      ]_vars


(***************************************************************************)
(* The direction of a position across a restart.                           *)
(***************************************************************************)
\* C37: the direction of a position survives persistence: a position that
\* was opened short is read as short by monitoring and closing, also after
\* it was saved and reloaded by a later process.
C37_DirectionSurvivesReload ==
    \A s \in DOMAIN open_positions :
        OpenedShort(open_positions[s]) => ~IsLong(open_positions[s])


(***************************************************************************)
(* A process that dies inside a save.                                      *)
(***************************************************************************)
\* Starting balances the saves of the run set.
CrashBalances == {1000, 2000, 3000}

\* The first renames of the rotation loop of _create_backup: .bak{i} down
\* to .bak{low}.
RECURSIVE RotatedDownTo(_, _, _)
RotatedDownTo(bak, i, low) ==
    IF i < low THEN bak
    ELSE IF bak[i].kind # "absent"
         THEN RotatedDownTo([bak EXCEPT ![i + 1] = bak[i], ![i] = AbsentFile], i - 1, low)
         ELSE RotatedDownTo(bak, i - 1, low)

\* The files as _create_backup leaves them after each of its file
\* operations: the renames of the rotation, the rename of the primary to
\* .bak1, the rename back, the copy onto .bak1 begun, the copy done.
BackupStages(d) ==
    LET n == Len(d.bak)
        rotating == [k \in 1..(n - 1) |-> [d EXCEPT !.bak = RotatedDownTo(d.bak, n - 1, n - k)]]
        rotated == [d EXCEPT !.bak = RotateBackups(d.bak, n - 1)]
    IN  IF d.main.kind = "absent" THEN <<>>
        ELSE rotating \o
             << [rotated EXCEPT !.main = AbsentFile, !.bak[1] = d.main],
                [rotated EXCEPT !.bak[1] = AbsentFile],
                [rotated EXCEPT !.bak[1] = CorruptFile],
                [rotated EXCEPT !.bak[1] = d.main] >>

\* The files as _save_state leaves them after each of its file operations:
\* those of the backup, then the primary truncated by open(..., 'w'), then
\* the primary written.
SaveStages(st, d) ==
    LET backed == _create_backup(d)
    IN  BackupStages(d) \o
        << [backed EXCEPT !.main = CorruptFile],
           [backed EXCEPT !.main = StateFile(JsonRoundTrip(st))] >>

CrashInit ==
    /\ NoProcess
    /\ pc = "store"
    /\ disk = NewDisk(LibraryBackups)
    /\ state_manager = NewStateManager(NewDisk(LibraryBackups)).state
    /\ last = [kind |-> "constructed", before |-> EmptyState, after |-> EmptyState,
               stages |-> <<>>, stage |-> 0, saves |-> 0, complete |-> FALSE]

\* set_starting_balance enters _save_state: the record keeps the state on
\* disk before the save and the state the save is writing.
BeginSave ==
    /\ pc = "store"
    /\ last.saves < MaxCrashSaves
    /\ \E balance \in CrashBalances :
         LET saved == set_starting_balance(TheStore, balance)
         IN  /\ state_manager' = saved.state
             /\ last' = [kind |-> "saving",
                         before |-> NewStateManager(disk).state,
                         after |-> saved.state,
                         stages |-> SaveStages(saved.state, disk),
                         stage |-> 0, saves |-> last.saves + 1,
                         complete |-> disk.main.kind = "state"]
    /\ pc' = "saving"
    /\ UNCHANGED <<traderVars, disk>>

\* The next file operation of the save; after the last one the call returns.
SaveStep ==
    /\ pc = "saving"
    /\ disk' = last.stages[last.stage + 1]
    /\ last' = [last EXCEPT !.stage = @ + 1,
                            !.kind = IF last.stage + 1 = Len(last.stages) THEN "saved" ELSE "saving"]
    /\ pc' = IF last.stage + 1 = Len(last.stages) THEN "store" ELSE "saving"
    /\ UNCHANGED <<traderVars, state_manager>>

\* The process dies: its memory is gone, the files stay as they are.
Crash ==
    /\ pc = "saving"
    /\ pc' = "down"
    /\ state_manager' = EmptyState
    /\ last' = [last EXCEPT !.kind = "crashed"]
    /\ UNCHANGED <<traderVars, disk>>

\* The next process constructs its StateManager on the files.
Restart ==
    /\ pc = "down"
    /\ LET loaded == _load_or_create_state(disk)
       IN  /\ state_manager' = loaded.state
           /\ disk' = loaded.disk
    /\ last' = [last EXCEPT !.kind = "reloaded"]
    /\ pc' = "store"
    /\ UNCHANGED traderVars

CrashNext == BeginSave \/ SaveStep \/ Crash \/ Restart

CrashSpec == CrashInit /\ [][CrashNext]_vars

\* C38: when a process died inside a save that found a complete state on
\* disk, the next StateManager loads either the state before the save or
\* the state the save was writing.
C38_CrashSafeSave ==
    (last.kind = "reloaded" /\ last.complete) =>
        state_manager \in {last.before, last.after}


(***************************************************************************)
(* A StateManager constructed on files of any content.                     *)
(***************************************************************************)
\* A file that parses as JSON and is no TradingState document: an object
\* with an unknown key, or a document that is not an object.
MisshapenFile == [kind |-> "misshapen", data |-> EmptyState]

\* A file of any content.
AnyFiles == FoundFiles \cup {MisshapenFile}

\* _load_or_create_state as the interpreter runs it, `depth` calls deep.
\* json.load parses the primary and TradingState.from_dict raises TypeError
\* on a document that is not of its shape; the handler that catches it
\* restores the first backup that parses and calls _load_or_create_state
\* again.  At the interpreter's recursion limit the call is cut off.
RECURSIVE LoadAtDepth(_, _)
LoadAtDepth(d, depth) ==
    IF depth > RecursionLimit
    THEN [state |-> EmptyState, disk |-> d, loads |-> depth - 1, exhausted |-> TRUE]
    ELSE IF d.main.kind = "absent"
    THEN [state |-> EmptyState, disk |-> d, loads |-> depth, exhausted |-> FALSE]
    ELSE IF d.main.kind = "state"
    THEN [state |-> d.main.data, disk |-> d, loads |-> depth, exhausted |-> FALSE]
    ELSE LET r == _try_recover_from_backup(d)
         IN  IF r.ok THEN LoadAtDepth(r.disk, depth + 1)
             ELSE [state |-> EmptyState, disk |-> d, loads |-> depth, exhausted |-> FALSE]

ShapeInit ==
    /\ NoProcess
    /\ pc = "down"
    /\ disk \in [main : AnyFiles, bak : [1..LibraryBackups -> AnyFiles]]
    /\ state_manager = EmptyState
    /\ last = NoStep

\* StateManager(state_file) on the files.  A RecursionError is caught by the
\* handlers of the frame it is raised in, which then creates a new state, or
\* it leaves the constructor.
ConstructOnFiles ==
    /\ pc = "down"
    /\ LET loaded == LoadAtDepth(disk, 1)
       IN  /\ disk' = loaded.disk
           /\ \E raised \in IF loaded.exhausted THEN BOOLEAN ELSE {FALSE} :
                /\ state_manager' = loaded.state
                /\ pc' = IF raised THEN "down" ELSE "store"
                /\ last' = [kind |-> "constructed", found |-> disk, loads |-> loaded.loads,
                            exhausted |-> loaded.exhausted, raised |-> raised]
    /\ UNCHANGED traderVars

ShapeNext == ConstructOnFiles

ShapeSpec == ShapeInit /\ [][ShapeNext]_vars

\* C39: the construction of a StateManager ends by itself whatever the
\* primary and the backups hold: the cycle of load, recovery and reload
\* comes to an end without running into the interpreter's recursion limit.
C39_LoadCycleFinite ==
    last.kind = "constructed" => ~last.exhausted /\ last.loads <= LibraryBackups + 1


(***************************************************************************)
(* The trader's working copy and the State Store.                          *)
(***************************************************************************)
\* C40: after every completed operation of a running trader process
\* (startup reconciliation, order placement, position close) the symbols of
\* the trader's open_positions are those of the StateManager's
\* open_positions.
C40_WorkingCopyInSync ==
    pc # "down" => DOMAIN open_positions = DOMAIN state_manager.open_positions

\* C40 witness: a tick closed the position of a funded trader, and neither
\* the trader nor the StateManager holds it any more.
C40_Witness_ClosedInBoth ==
    /\ last.kind = "tick"
    /\ ~simulation_mode
    /\ \E i \in 1..Len(trade_history) : trade_history[i].status = "CLOSED"
    /\ open_positions = EmptyMap
    /\ state_manager.open_positions = EmptyMap

====
